---- MODULE Spec2Model ----
(***************************************************************************)
(* Model of app/services/analysis_service.py: one run of                   *)
(* AnalysisService.analyze_username on a fresh service instance.           *)
(*                                                                         *)
(* The run is a set of asyncio coroutines on one event loop.  A coroutine  *)
(* runs without interruption between two suspension points, so every      *)
(* action below is one such segment.  The loop's FIFO queue of runnable    *)
(* callbacks is the variable ready; the only external events are the       *)
(* completions of engine calls, which the loop takes up when no callback   *)
(* is runnable.                                                            *)
(*                                                                         *)
(* Evaluations are Python floats in pawns; the model keeps them as         *)
(* integers in hundredths of a pawn (0.0 is 0, 100.0 is 10000).            *)
(* An optional value is a sequence of length 0 or 1.                       *)
(***************************************************************************)
EXTENDS Integers, Sequences, FiniteSets, TLC

(***************************************************************************)
(* Bounds of the model.                                                    *)
(***************************************************************************)
\* Largest number of games get_user_games returns.
MaxGames == 4

\* Largest number of positions in all games together.
MaxPositions == 2

\* Largest number of engine calls of one run that time out or fail.
MaxFaults == 1

\* Largest number of calls of analyze_username on one AnalysisService.
MaxRuns == 2

\* Largest number of messages redis_listener receives.
MaxMessages == 4

\* Number of job ids in the messages on the channel job_updates.
MaxJobs == 2

\* Number of keys CacheService.get and CacheService.set are called with.
MaxKeys == 3

\* maxsize of CacheService.memory_cache (100 in the source), scaled down so
\* that the keys of the model fill it.
MemoryCacheSize == 2

(***************************************************************************)
(* Program constants.                                                      *)
(***************************************************************************)
\* asyncio.Semaphore(8)
SemaphoreLimit == 8

\* init_engine_pool(num_engines=8)
NumEngines == 8

\* batch_size = min(len(games), 3)
MaxBatch == 3

\* mate_score = 100.0 if score.mate() > 0 else -100.0, in hundredths
MateScore == 10000

(***************************************************************************)
(* Input alphabet: position fingerprints and played moves (SAN).           *)
(***************************************************************************)
Fens == {1, 2}

\* "d4" is among the engine's candidates (not the first), "h3" never is.
PlayedMoves == {"d4", "h3"}

TimeControls == <<"300+0", "600+5">>

(***************************************************************************)
(* Generic helpers.                                                        *)
(***************************************************************************)
Range(s) == {s[i] : i \in DOMAIN s}

Min(a, b) == IF a <= b THEN a ELSE b

\* d[k] = v on a Python dict kept as a function with a finite domain
Put(d, k, v) == [x \in (DOMAIN d) \cup {k} |-> IF x = k THEN v ELSE d[x]]

RECURSIVE SumLen(_)
SumLen(ss) == IF ss = <<>> THEN 0 ELSE Len(Head(ss)) + SumLen(Tail(ss))

RECURSIVE SortedSeq(_)
\* sorted(keys) for a finite set of integers
SortedSeq(S) ==
  IF S = {} THEN <<>>
  ELSE LET m == CHOOSE x \in S : \A y \in S : x <= y
       IN <<m>> \o SortedSeq(S \ {m})

(***************************************************************************)
(* Data model (app/models/analysis.py) and the games get_user_games        *)
(* yields (app/services/lichess_service.py).                               *)
(***************************************************************************)
MoveAnalysis(move, eval) == [move |-> move, eval |-> eval]

PositionAnalysis(fen, move_number, played_move, played_move_eval, best_moves) ==
  [fen |-> fen, move_number |-> move_number, played_move |-> played_move,
   played_move_eval |-> played_move_eval, best_moves |-> best_moves]

GameAnalysis(game_id, time_control, moves) ==
  [game_id |-> game_id, time_control |-> time_control, moves |-> moves]

AnalysisResponse(gs) == [games |-> gs]

\* One entry of parsed_game["moves"]: move_number is i + 1.
MoveData(i, label) == [move_number |-> i, fen |-> label[1], played_move |-> label[2]]

\* parsed_game for the i-th game of the reply, from its list of (fen, move) labels
ParsedGame(i, labels) ==
  [game_id |-> i,
   time_control |-> TimeControls[(i % 2) + 1],
   moves |-> [j \in 1..Len(labels) |-> MoveData(j, labels[j])]]

ParsedGames(shape) == [i \in 1..Len(shape) |-> ParsedGame(i, shape[i])]

LabelSeqs(k) == UNION {[1..m -> Fens \X PlayedMoves] : m \in 0..k}

RECURSIVE Shapes(_, _)
\* the lists of n games with at most budget positions in all
Shapes(n, budget) ==
  IF n = 0 THEN {<<>>}
  ELSE UNION {{<<ml>> \o rest : rest \in Shapes(n - 1, budget - Len(ml))} :
              ml \in LabelSeqs(budget)}

\* what get_user_games may return, the empty list apart
GameLists == UNION {{ParsedGames(sh) : sh \in Shapes(n, MaxPositions)} : n \in 1..MaxGames}

(***************************************************************************)
(* The engine.  engine.analyse(board, limit, multipv) answers with a list  *)
(* of info dicts, best line first; the answer is a function of the         *)
(* position.  The third info has no principal variation.  The second line *)
(* ends in mate for some positions, at distances from -3 (the side to move *)
(* is mated in three) to 3 (it mates in three), 0 included.                *)
(***************************************************************************)
Cp(n) == [is_mate |-> FALSE, n |-> n]

Mate(n) == [is_mate |-> TRUE, n |-> n]

\* pv["score"].relative of the second line
SecondLineScore(fen) ==
  IF fen = 2 THEN Mate(0 - 3)
  ELSE IF fen > 3 THEN Mate(fen - 6)
  ELSE Cp(10 + fen)

EngineAnalyse(fen) ==
  << [pv |-> <<"e2e4", "e7e5">>, score |-> Cp(30 + fen)],
     [pv |-> <<"d2d4">>, score |-> SecondLineScore(fen)],
     [pv |-> <<>>, score |-> Cp(0)] >>

\* board.san(move): the engine's UCI move in algebraic notation
San(move) ==
  CASE move = "e2e4" -> "e4"
    [] move = "d2d4" -> "d4"
    [] OTHER -> move

\* mutant of NormalizeEvaluation: a mate score is reported by its distance
NormalizeEvaluationDistance(score) == score.n

\* _normalize_evaluation, in hundredths of a pawn
NormalizeEvaluation(score) ==
  IF score.is_mate
  THEN (IF score.n > 0 THEN MateScore ELSE 0 - MateScore)
  ELSE score.n

RECURSIVE BestMoves(_)
\* the loop over analysis_result in _analyze_position
BestMoves(analysis_result) ==
  IF analysis_result = <<>> THEN <<>>
  ELSE LET pv == Head(analysis_result)
       IN (IF Len(pv.pv) > 0
           THEN <<MoveAnalysis(San(pv.pv[1]), NormalizeEvaluation(pv.score))>>
           ELSE <<>>) \o BestMoves(Tail(analysis_result))

RECURSIVE PlayedMoveEval(_, _)
\* the first candidate whose move is the played move gives the evaluation; if
\* there is none the evaluation is 0.0
PlayedMoveEval(best_moves, played_move) ==
  IF best_moves = <<>> THEN 0
  ELSE IF Head(best_moves).move = played_move THEN Head(best_moves).eval
  ELSE PlayedMoveEval(Tail(best_moves), played_move)

\* _analyze_position when engine.analyse answers in time
AnalyzePositionOk(move_data) ==
  LET best_moves == BestMoves(EngineAnalyse(move_data.fen))
  IN PositionAnalysis(move_data.fen, move_data.move_number, move_data.played_move,
                      PlayedMoveEval(best_moves, move_data.played_move), best_moves)

\* mutant of AnalyzePositionTimeout: the timeout is not noticed and the
\* position is reported as if the engine had answered
AnalyzePositionTimeoutIgnored(move_data) == AnalyzePositionOk(move_data)

\* _analyze_position on asyncio.TimeoutError
AnalyzePositionTimeout(move_data) ==
  PositionAnalysis(move_data.fen, move_data.move_number, move_data.played_move, 0, <<>>)

\* mutant of AnalyzePositionError: the exception is not noticed and the
\* position is reported as if the engine had answered
AnalyzePositionErrorIgnored(move_data) == AnalyzePositionOk(move_data)

\* _analyze_position on any other exception of the engine call
AnalyzePositionError(move_data) ==
  PositionAnalysis(move_data.fen, move_data.move_number, move_data.played_move, 0, <<>>)

(***************************************************************************)
(* Deduplication in _analyze_game.                                         *)
(***************************************************************************)
\* mutant of FenOrder: every occurrence of a fingerprint counts as a new one
FenOrderEvery(moves, seen) == [i \in 1..Len(moves) |-> moves[i].fen]

RECURSIVE FenOrder(_, _)
\* the keys of fen_groups in insertion order (first occurrence of each fen)
FenOrder(moves, seen) ==
  IF moves = <<>> THEN <<>>
  ELSE IF Head(moves).fen \in seen THEN FenOrder(Tail(moves), seen)
  ELSE <<Head(moves).fen>> \o FenOrder(Tail(moves), seen \cup {Head(moves).fen})

\* fen_groups[fen]
FenGroup(moves, fen) == SelectSeq(moves, LAMBDA md : md.fen = fen)

\* mutant of ApplyToGroup: only the analysed occurrence of a fingerprint gets
\* the analysis
ApplyToFirstOnly(game_cache, group, played_move_eval, best_moves) ==
  IF group = <<>> THEN game_cache
  ELSE Put(game_cache, Head(group).move_number,
           PositionAnalysis(Head(group).fen, Head(group).move_number,
                            Head(group).played_move, played_move_eval, best_moves))

\* mutant of ApplyToGroup: every occurrence of a fingerprint is given the
\* played move of the occurrence that was analysed
ApplyToGroupAsAnalysed(game_cache, group, played_move_eval, best_moves) ==
  LET numbers == {group[i].move_number : i \in DOMAIN group}
  IN [n \in (DOMAIN game_cache) \cup numbers |->
        IF n \in numbers
        THEN PositionAnalysis(group[1].fen, n, group[1].played_move,
                              played_move_eval, best_moves)
        ELSE game_cache[n]]

RECURSIVE ApplyToGroup(_, _, _, _)
\* game_cache after giving every position of a group the evaluation and the
\* candidates of one analysis
ApplyToGroup(game_cache, group, played_move_eval, best_moves) ==
  IF group = <<>> THEN game_cache
  ELSE ApplyToGroup(
         Put(game_cache, Head(group).move_number,
             PositionAnalysis(Head(group).fen, Head(group).move_number,
                              Head(group).played_move, played_move_eval, best_moves)),
         Tail(group), played_move_eval, best_moves)

\* [game_cache[n] for n in sorted(game_cache.keys())]
SortedPositions(game_cache) ==
  LET keys == SortedSeq(DOMAIN game_cache)
  IN [i \in 1..Len(keys) |-> game_cache[keys[i]]]

\* mutant of ProgressPercent: the percent is not capped at 99
ProgressUncapped(analyzed, total) == 10 + ((90 * analyzed) \div total)

\* min(10 + int(90 * positions_analyzed / total_positions), 99)
ProgressPercent(analyzed, total) == Min(10 + ((90 * analyzed) \div total), 99)

(***************************************************************************)
(* State.                                                                  *)
(***************************************************************************)
VARIABLES
  pc,                 \* where analyze_username stands
  exit_kind,          \* "" while it runs, then "return" or "raise"
  result_cache,       \* cache_service entry "analysis:<username>" (optional)
  games,              \* what get_user_games returned
  total_positions,    \* total_positions of analyze_username
  positions_analyzed, \* positions_analyzed of analyze_username
  batch_start,        \* loop variable i of the batch loop, counted from 1
  analyzed_games,     \* analyzed_games of analyze_username
  response,           \* the AnalysisResponse returned (optional)
  progress,           \* the percents handed to the progress callback, in order
  sink_errors,        \* the calls of the progress callback that raised, as
                      \* indices of progress
  engine_pool,        \* self.engine_pool: the idle handles, last one popped first;
                      \* a handle is "live" or, once its process has died, "dead"
  permits,            \* value of self.engine_semaphore
  sem_waiters,        \* position tasks blocked in engine_semaphore.acquire()
  engines_created,    \* number of engine processes started so far
  engines_quit,       \* number of handles cleanup has called quit() on
  quit_errors,        \* how many of these calls of quit() raised
  position_cache,     \* self.position_cache: fen -> evaluation and candidates
  gtask,              \* the analyze_and_track tasks of the current batch
  ptask,              \* the _analyze_position_with_engine tasks of the batch
  ready,              \* the event loop's queue of runnable callbacks
  engine_calls,       \* how many times engine.analyse was called, per fen
  faults,             \* the engine calls that timed out or failed
  finished,           \* the games in the order their tasks ended
  cancelled,          \* the task running analyze_username has been cancelled
  deferred,           \* asyncio.wait_for, when cancelled, first waits for the
                      \* call it wraps to end (it does up to Python 3.11)
  task_state,         \* the Celery state of the analyze_games_task job
  task_result,        \* 'status' of the dict the job returned (optional)
  job_updates,        \* the terminal events analyze_games_task has handed to
                      \* redis_client.publish for the job, each with whether
                      \* the call succeeded
  run,                \* which call of analyze_username on this AnalysisService
                      \* is the current one, counted from 1
  completed_jobs,     \* redis_listener: the job ids whose 'completed' message
                      \* it has already passed on
  received,           \* the messages pubsub.listen() has handed to the listener
  forwarded,          \* the calls of send_job_updates the listener has made
  redis_available,    \* CacheService.redis_available; no value before __init__
  redis_store,        \* the keys of the Redis database, each with its string
  memory_cache,       \* CacheService.memory_cache, the oldest entry first
  keys_set,           \* the keys CacheService.set was called with
  cache_call          \* the last call of CacheService.get or CacheService.set
                      \* and how it ended

\* the variables of analyze_games_task and of the AnalysisService it runs
job_vars == <<pc, exit_kind, result_cache, games, total_positions, positions_analyzed,
              batch_start, analyzed_games, response, progress, sink_errors, engine_pool,
              permits, sem_waiters, engines_created, engines_quit, quit_errors,
              position_cache, gtask, ptask, ready, engine_calls, faults, finished,
              cancelled, deferred, task_state, task_result, job_updates, run>>

\* the variables of redis_listener in the web process
listener_vars == <<completed_jobs, received, forwarded>>

\* the variables of a CacheService and of the Redis database behind it
cache_vars == <<redis_available, redis_store, memory_cache, keys_set, cache_call>>

\* what no step of the analysis job changes
web_vars == <<listener_vars, cache_vars>>

vars == <<pc, exit_kind, result_cache, games, total_positions, positions_analyzed,
          batch_start, analyzed_games, response, progress, sink_errors, engine_pool, permits,
          sem_waiters, engines_created, engines_quit, quit_errors, position_cache, gtask,
          ptask, ready, engine_calls, faults, finished, cancelled,
          deferred, task_state, task_result, job_updates, run, web_vars>>

run_vars == <<exit_kind, result_cache, games, total_positions, batch_start,
              analyzed_games, response, cancelled, deferred,
              task_state, task_result, job_updates, run, web_vars>>

pool_vars == <<engine_pool, permits, sem_waiters, engines_created, engines_quit, quit_errors>>

\* a result that an earlier run left in the result cache
StoredResponse == AnalysisResponse(<<GameAnalysis(1, "300+0", <<>>)>>)

\* cache_call before any call of get or set: op is the method, result the
\* optional return value of get, fault whether the backend raised inside
\* the call, raised whether the call raised to its caller
NoCall == [op |-> "", key |-> 0, value |-> <<>>, result |-> <<>>,
           fault |-> FALSE, raised |-> FALSE]

Init ==
  /\ pc = "queued"
  /\ exit_kind = ""
  /\ result_cache \in {<<>>, <<StoredResponse>>}
  /\ games = <<>>
  /\ total_positions = 0
  /\ positions_analyzed = 0
  /\ batch_start = 1
  /\ analyzed_games = <<>>
  /\ response = <<>>
  /\ progress = <<>>
  /\ sink_errors = {}
  /\ engine_pool = <<>>
  /\ permits = SemaphoreLimit
  /\ sem_waiters = <<>>
  /\ engines_created = 0
  /\ engines_quit = 0
  /\ quit_errors = 0
  /\ position_cache = <<>>
  /\ gtask = <<>>
  /\ ptask = <<>>
  /\ ready = <<>>
  /\ engine_calls = <<>>
  /\ faults = {}
  /\ finished = <<>>
  /\ cancelled = FALSE
  /\ deferred = FALSE
  /\ task_state = "PENDING"
  /\ task_result = <<>>
  /\ job_updates = <<>>
  /\ run = 1
  /\ completed_jobs = {}
  /\ received = <<>>
  /\ forwarded = <<>>
  /\ redis_available = <<>>
  /\ redis_store = <<>>
  /\ memory_cache = <<>>
  /\ keys_set = {}
  /\ cache_call = NoCall

\* the disturbances of the run so far: engine calls that timed out or failed
\* and calls of the progress callback that raised
Disturbances == Cardinality(faults) + Cardinality(sink_errors)

\* mutant of ReportProgress: after the callback has raised once it is not
\* called any more
ReportProgressGivesUp(percent) ==
  IF sink_errors # {}
  THEN UNCHANGED <<progress, sink_errors>>
  ELSE /\ progress' = Append(progress, percent)
       /\ \/ UNCHANGED sink_errors
          \/ /\ Disturbances < MaxFaults
             /\ sink_errors' = sink_errors \cup {Len(progress) + 1}

\* _report_progress(current, 100, status): the callback is called; when it
\* raises, the exception is caught and logged
ReportProgress(percent) ==
  /\ progress' = Append(progress, percent)
  /\ \/ UNCHANGED sink_errors
     \/ /\ Disturbances < MaxFaults
        /\ sink_errors' = sink_errors \cup {Len(progress) + 1}

(***************************************************************************)
(* Tasks and the event loop.                                               *)
(***************************************************************************)
GameEntry(g) == [kind |-> "game", g |-> g, k |-> 0]

PosEntry(g, k) == [kind |-> "pos", g |-> g, k |-> k]

FinishEntry(g) == [kind |-> "finish", g |-> g, k |-> 0]

MainEntry == [kind |-> "main", g |-> 0, k |-> 0]

\* the position tasks of game g, as keys of ptask
TasksOf(pt, g) == {t \in DOMAIN pt : t[1] = g}

Ended(st) == st \in {"done", "raised", "cancelled"}

\* asyncio.gather(*position_tasks, return_exceptions=True) of game g is done
GatherDone(pt, g) == \A t \in TasksOf(pt, g) : Ended(pt[t].st)

\* mutant of WakeGame: the end of the last position task resumes nothing
WakeGameLost(pt, g) == <<>>

\* the callback that resumes _analyze_game once its gather is done
WakeGame(pt, g) == IF GatherDone(pt, g) THEN <<FinishEntry(g)>> ELSE <<>>

\* asyncio.gather(*[analyze_and_track(game) ...]) resumes analyze_username when
\* a game task raised or when all of them are done
WakeMain(gt, queue) ==
  IF /\ pc = "gather"
     /\ MainEntry \notin Range(queue)
     /\ \/ \E g \in DOMAIN gt : gt[g].st \in {"raised", "cancelled"}
        \/ \A g \in DOMAIN gt : gt[g].st = "done"
  THEN <<MainEntry>>
  ELSE <<>>

\* mutant of BatchSize: all games go into one batch
BatchSizeAll == Len(games)

\* the batch games[i:i + batch_size]
BatchSize == Min(Len(games), MaxBatch)

Batch == {g \in 1..Len(games) : g >= batch_start /\ g < batch_start + BatchSize}

(***************************************************************************)
(* analyze_games_task up to the call of analyze_username.                  *)
(***************************************************************************)
\* what the job does not touch before analyze_username runs
service_vars == <<exit_kind, result_cache, games, total_positions, positions_analyzed,
                  batch_start, analyzed_games, response, progress, sink_errors,
                  engine_pool, permits, sem_waiters, engines_created, engines_quit,
                  quit_errors, position_cache, gtask, ptask, ready, engine_calls,
                  faults, finished, cancelled, deferred, run, web_vars>>

\* a worker takes the job from the queue; with task_track_started the state
\* STARTED is stored before the body of the task runs
TaskStarts ==
  /\ pc = "queued"
  /\ pc' = "started"
  /\ task_state' = "STARTED"
  /\ UNCHANGED <<task_result, job_updates>>
  /\ UNCHANGED service_vars

\* self.update_state(state='PROGRESS', ...), the new event loop, the service
\* and its progress callback, up to loop.run_until_complete(...)
TaskBegins ==
  /\ pc = "started"
  /\ pc' = "start"
  /\ task_state' = "PROGRESS"
  /\ UNCHANGED <<task_result, job_updates>>
  /\ UNCHANGED service_vars

(***************************************************************************)
(* analyze_username up to the batch loop.                                  *)
(***************************************************************************)
\* cached_result = await self.cache_service.get(cache_key): a hit is returned
\* at once (the finally clause still runs cleanup)
CheckResultCache ==
  /\ UNCHANGED <<finished, cancelled, deferred, task_state, task_result, job_updates, run, web_vars>>
  /\ pc = "start"
  /\ IF result_cache # <<>>
     THEN /\ response' = result_cache
          /\ exit_kind' = "return"
          /\ pc' = "cleanup"
     ELSE /\ pc' = "init_pool"
          /\ UNCHANGED <<response, exit_kind>>
  /\ UNCHANGED <<result_cache, games, total_positions, positions_analyzed, batch_start,
                 analyzed_games, progress, sink_errors, position_cache, gtask, ptask, ready,
                 engine_calls, faults>>
  /\ UNCHANGED pool_vars

\* await self.init_engine_pool(num_engines=8), then the 5% progress report
InitEnginePool ==
  /\ UNCHANGED <<finished, cancelled, deferred, task_state, task_result, job_updates, run, web_vars>>
  /\ pc = "init_pool"
  /\ engine_pool' = engine_pool \o [n \in 1..NumEngines |-> "live"]
  /\ engines_created' = engines_created + NumEngines
  /\ ReportProgress(5)
  /\ pc' = "fetch"
  /\ UNCHANGED <<permits, sem_waiters, engines_quit, quit_errors, positions_analyzed, position_cache,
                 gtask, ptask, ready, engine_calls, faults>>
  /\ UNCHANGED run_vars

\* init_engine raises for the (n + 1)-th engine: analyze_username logs and
\* re-raises, the finally clause runs cleanup
InitEnginePoolFails ==
  /\ UNCHANGED <<finished, cancelled, deferred, task_state, task_result, job_updates, run, web_vars>>
  /\ pc = "init_pool"
  /\ \E n \in 0..(NumEngines - 1) :
       /\ engine_pool' = engine_pool \o [m \in 1..n |-> "live"]
       /\ engines_created' = engines_created + n
  /\ exit_kind' = "raise"
  /\ pc' = "cleanup"
  /\ UNCHANGED <<permits, sem_waiters, engines_quit, quit_errors, positions_analyzed, position_cache,
                 gtask, ptask, ready, engine_calls, faults, progress, sink_errors>>
  /\ UNCHANGED <<result_cache, games, total_positions, batch_start, analyzed_games,
                 response>>

\* a batch with more position tasks than engines: a game of one position and
\* two games of four positions each, all nine fingerprints distinct
LoadGames ==
  ParsedGames(<< <<<<1, "d4">>>>,
                 [j \in 1..4 |-> <<1 + j, "d4">>],
                 [j \in 1..4 |-> <<5 + j, "d4">>] >>)

\* mutant of NoGames: an empty list of games is treated like any other
NoGamesOverlooked(gs) == FALSE

\* if not games: the "no games found" exit of analyze_username
NoGames(gs) == gs = <<>>

\* one game of four positions, the first and the third with one fingerprint
SharedFenGame ==
  ParsedGames(<< << <<1, "d4">>, <<2, "d4">>, <<1, "h3">>, <<3, "d4">> >> >>)

\* what a later call of analyze_username on the service fetches: one game of
\* one position, or two games with that position
LaterGames ==
  {ParsedGames(<< <<<<1, "d4">>>> >>), ParsedGames(<< <<<<1, "h3">>>>, <<<<1, "d4">>>> >>)}

\* what get_user_games returns in the current call
FetchedGames ==
  IF run = 1 THEN GameLists \cup {<<>>, LoadGames, SharedFenGame} ELSE LaterGames

\* games = await self.lichess_service.get_user_games(...), down to the batch
\* loop, for a reply that is one of choices
Fetch(choices) ==
  /\ UNCHANGED <<finished, cancelled, deferred, task_state, task_result, job_updates, run, web_vars>>
  /\ pc = "fetch"
  /\ \E gs \in choices :
       /\ games' = gs
       /\ IF NoGames(gs)
          THEN /\ ReportProgress(100)
               /\ response' = <<AnalysisResponse(<<>>)>>
               /\ exit_kind' = "return"
               /\ pc' = "cleanup"
               /\ UNCHANGED total_positions
          ELSE /\ ReportProgress(10)
               /\ total_positions' = SumLen([g \in 1..Len(gs) |-> gs[g].moves])
               /\ pc' = "loop"
               /\ UNCHANGED <<response, exit_kind>>
  /\ UNCHANGED <<result_cache, positions_analyzed, batch_start, analyzed_games,
                 position_cache, gtask, ptask, ready, engine_calls, faults>>
  /\ UNCHANGED pool_vars

FetchGames == Fetch(FetchedGames)

\* batch = games[i:i + batch_size]; asyncio.gather creates one task per game
StartBatch ==
  /\ UNCHANGED <<finished, cancelled, deferred, task_state, task_result, job_updates, run, web_vars>>
  /\ pc = "loop"
  /\ batch_start <= Len(games)
  /\ gtask' = [g \in Batch |-> [st |-> "ready", game_cache |-> <<>>, result |-> <<>>]]
  /\ ptask' = <<>>
  /\ ready' = [n \in 1..Cardinality(Batch) |-> GameEntry(batch_start + n - 1)]
  /\ pc' = "gather"
  /\ UNCHANGED <<positions_analyzed, progress, sink_errors, position_cache, engine_calls, faults>>
  /\ UNCHANGED run_vars
  /\ UNCHANGED pool_vars

(***************************************************************************)
(* _analyze_game and analyze_and_track.                                    *)
(***************************************************************************)
\* the value _analyze_game stores in position_cache for an analysis
CacheEntry(result) ==
  [played_move_eval |-> result.played_move_eval, best_moves |-> result.best_moves]

RECURSIVE FillFromCache(_, _, _)
\* the branch "fen in self.position_cache" for each cached fen of the game
FillFromCache(game_cache, moves, fens) ==
  IF fens = <<>> THEN game_cache
  ELSE FillFromCache(
         ApplyToGroup(game_cache, FenGroup(moves, Head(fens)),
                      position_cache[Head(fens)].played_move_eval,
                      position_cache[Head(fens)].best_moves),
         moves, Tail(fens))

NewTask(move_data) ==
  [move_data |-> move_data, st |-> "ready", engine |-> <<>>, outcome |-> "",
   result |-> <<>>]

\* mutant of Misses: every fingerprint of the game is analysed, cached or not
MissesAll(order) == order

\* the fens of a game that need a position task: those not in position_cache
\* when _analyze_game starts
Misses(order) == SelectSeq(order, LAMBDA f : f \notin DOMAIN position_cache)

Hits(order) == SelectSeq(order, LAMBDA f : f \in DOMAIN position_cache)

\* return GameAnalysis(...) of _analyze_game, then the rest of analyze_and_track:
\* the division by total_positions raises ZeroDivisionError when it is 0
ReturnGame(g, game_cache, queue) ==
  LET game == games[g]
      result == GameAnalysis(game.game_id, game.time_control, SortedPositions(game_cache))
  IN /\ positions_analyzed' = positions_analyzed + Len(game.moves)
     /\ finished' = Append(finished, g)
     /\ IF total_positions = 0
        THEN /\ gtask' = [gtask EXCEPT ![g].st = "raised", ![g].game_cache = <<>>]
             /\ UNCHANGED <<progress, sink_errors>>
        ELSE /\ gtask' = [gtask EXCEPT ![g].st = "done", ![g].game_cache = <<>>,
                                       ![g].result = <<result>>]
             /\ ReportProgress(ProgressPercent(positions_analyzed', total_positions))
     /\ ready' = queue \o WakeMain(gtask', queue)

\* _analyze_game from its start to "await asyncio.gather(*position_tasks, ...)",
\* or to its end when no position needs the engine
AnalyzeGameStart(g) ==
  /\ ready # <<>>
  /\ Head(ready) = GameEntry(g)
  /\ ~cancelled
  /\ LET moves == games[g].moves
         order == FenOrder(moves, {})
         misses == Misses(order)
         game_cache == FillFromCache(<<>>, moves, Hits(order))
         created == {<<g, k>> : k \in 1..Len(misses)}
     IN IF misses = <<>>
        THEN /\ ReturnGame(g, game_cache, Tail(ready))
             /\ UNCHANGED ptask
        ELSE /\ gtask' = [gtask EXCEPT ![g].st = "gathering", ![g].game_cache = game_cache]
             /\ ptask' = [t \in (DOMAIN ptask) \cup created |->
                            IF t \in DOMAIN ptask THEN ptask[t]
                            ELSE NewTask(Head(FenGroup(moves, misses[t[2]])))]
             /\ ready' = Tail(ready) \o [k \in 1..Len(misses) |-> PosEntry(g, k)]
             /\ UNCHANGED <<positions_analyzed, progress, sink_errors, finished>>
  /\ UNCHANGED <<pc, position_cache, engine_calls, faults>>
  /\ UNCHANGED run_vars
  /\ UNCHANGED pool_vars

RECURSIVE ProcessResults(_, _, _, _)
\* the loop over batch_results: a task that raised is skipped; every other
\* result is stored in position_cache and given to each position of its fen
ProcessResults(g, k, cache, game_cache) ==
  IF <<g, k>> \notin DOMAIN ptask THEN [cache |-> cache, game_cache |-> game_cache]
  ELSE IF ptask[<<g, k>>].st = "raised" THEN ProcessResults(g, k + 1, cache, game_cache)
  ELSE LET result == ptask[<<g, k>>].result[1]
       IN ProcessResults(g, k + 1,
            Put(cache, result.fen, CacheEntry(result)),
            ApplyToGroup(game_cache, FenGroup(games[g].moves, result.fen),
                         result.played_move_eval, result.best_moves))

\* _analyze_game from the end of its gather to its return
AnalyzeGameFinish(g) ==
  /\ ready # <<>>
  /\ Head(ready) = FinishEntry(g)
  /\ ~cancelled
  /\ \E after \in {ProcessResults(g, 1, position_cache, gtask[g].game_cache)} :
       /\ position_cache' = after.cache
       /\ ReturnGame(g, after.game_cache, Tail(ready))
  /\ UNCHANGED <<pc, ptask, engine_calls, faults>>
  /\ UNCHANGED run_vars
  /\ UNCHANGED pool_vars

(***************************************************************************)
(* The engine pool and _analyze_position_with_engine.                      *)
(***************************************************************************)
\* mutant of SemLocked: acquire() never blocks
SemNeverLocked(value, waiters) == FALSE

\* asyncio.Semaphore.locked(): acquire() blocks when no permit is free or
\* earlier tasks are still waiting
SemLocked(value, waiters) == value = 0 \/ waiters # <<>>

\* self.engine_pool.pop(): the handle returned and the list left
PoolTop(pool) == pool[Len(pool)]

\* mutant of PoolRest: the handle is read (engine_pool[-1]) but not removed
PoolRestKeepsTop(pool) == pool

PoolRest(pool) == SubSeq(pool, 1, Len(pool) - 1)

\* mutant of PoolWith: release drops the handle
PoolWithout(pool, handle) == pool

\* self.engine_pool.append(engine) of release_engine_to_pool
PoolWith(pool, handle) == Append(pool, handle)

BumpCalls(fen) ==
  Put(engine_calls, fen, IF fen \in DOMAIN engine_calls THEN engine_calls[fen] + 1 ELSE 1)

\* get_engine_from_pool once the permit is held, then the call of
\* engine.analyse in _analyze_position.  With no idle handle a new engine is
\* started; if that fails the task ends with the exception and, having no
\* engine, gives no permit back.
HandOut(g, k) ==
  LET t == <<g, k>>
      fen == ptask[t].move_data.fen
  IN IF engine_pool = <<>>
     THEN \E started \in BOOLEAN :
            IF started
            THEN /\ ptask' = [ptask EXCEPT ![t].st = "analysing", ![t].engine = <<"live">>]
                 /\ engines_created' = engines_created + 1
                 /\ engine_calls' = BumpCalls(fen)
                 /\ ready' = Tail(ready)
                 /\ UNCHANGED engine_pool
            ELSE /\ ptask' = [ptask EXCEPT ![t].st = "raised", ![t].outcome = "exception"]
                 /\ ready' = Tail(ready) \o WakeGame(ptask', g)
                 /\ UNCHANGED <<engine_pool, engines_created, engine_calls>>
     ELSE /\ ptask' = [ptask EXCEPT ![t].st = "analysing",
                                    ![t].engine = <<PoolTop(engine_pool)>>]
          /\ engine_pool' = PoolRest(engine_pool)
          /\ engine_calls' = BumpCalls(fen)
          /\ ready' = Tail(ready)
          /\ UNCHANGED engines_created

\* _analyze_position_with_engine from its start (or from its wake-up in
\* acquire()) to the await of the engine call
GetEngine(g, k) ==
  /\ UNCHANGED <<finished, cancelled, deferred, task_state, task_result, job_updates, run, web_vars>>
  /\ ready # <<>>
  /\ Head(ready) = PosEntry(g, k)
  /\ ~cancelled
  /\ \/ /\ ptask[<<g, k>>].st = "ready"
        /\ ~SemLocked(permits, sem_waiters)
        /\ permits' = permits - 1
        /\ HandOut(g, k)
        /\ UNCHANGED sem_waiters
     \/ /\ ptask[<<g, k>>].st = "ready"
        /\ SemLocked(permits, sem_waiters)
        /\ ptask' = [ptask EXCEPT ![<<g, k>>].st = "waiting"]
        /\ sem_waiters' = Append(sem_waiters, <<g, k>>)
        /\ ready' = Tail(ready)
        /\ UNCHANGED <<permits, engine_pool, engines_created, engine_calls>>
     \/ /\ ptask[<<g, k>>].st = "woken"
        /\ HandOut(g, k)
        /\ UNCHANGED <<permits, sem_waiters>>
  /\ UNCHANGED <<pc, positions_analyzed, progress, sink_errors, position_cache, gtask, faults,
                 engines_quit, quit_errors>>
  /\ UNCHANGED run_vars

\* mutant of SemRelease: release leaves the value as it is
SemReleaseLost(value) == value

\* engine_semaphore.release() with no task blocked in acquire(), and the
\* return of the permit by a woken task that is cancelled before it has run
SemRelease(value) == value + 1

\* mutant of WakeUpNext: release leaves the first waiter blocked
WakeUpNone(pt, waiters) == pt

\* engine_semaphore.release() with a task blocked in acquire(): the first
\* waiter is woken and owns the permit
WakeUpNext(pt, waiters) == [pt EXCEPT ![Head(waiters)].st = "woken"]

\* mutant of HoldsEngine: the finally clause takes the task to have no engine
HoldsNoEngine(engine) == FALSE

\* "if engine:" in the finally clause of _analyze_position_with_engine and in
\* release_engine_to_pool: the handle and the permit are given back only by a
\* task that has an engine
HoldsEngine(engine) == engine # <<>>

\* The engine call of task <<g, k>> is over: _analyze_position returns result,
\* the finally clause of _analyze_position_with_engine gives the handle back
\* (release_engine_to_pool: append, then semaphore.release(), which hands the
\* permit to the first waiter), and the task ends.
FinishCall(g, k, outcome, result) ==
  LET t == <<g, k>>
      ended == [ptask EXCEPT ![t].st = "done", ![t].engine = <<>>,
                             ![t].outcome = outcome, ![t].result = <<result>>]
  IN /\ ready = <<>>
     /\ ptask[t].st = "analysing"
     /\ IF ~HoldsEngine(ptask[t].engine)
        THEN /\ ptask' = ended
             /\ ready' = WakeGame(ptask', g)
             /\ UNCHANGED <<engine_pool, permits, sem_waiters>>
        ELSE /\ engine_pool' = PoolWith(engine_pool,
                                        IF outcome = "died" THEN "dead"
                                        ELSE ptask[t].engine[1])
             /\ IF sem_waiters = <<>>
                THEN /\ permits' = SemRelease(permits)
                     /\ ptask' = ended
                     /\ ready' = WakeGame(ptask', g)
                     /\ UNCHANGED sem_waiters
                ELSE /\ ptask' = WakeUpNext(ended, sem_waiters)
                     /\ sem_waiters' = Tail(sem_waiters)
                     /\ ready' = <<PosEntry(Head(sem_waiters)[1], Head(sem_waiters)[2])>>
                                   \o WakeGame(ptask', g)
                     /\ UNCHANGED permits
     /\ UNCHANGED <<pc, positions_analyzed, progress, sink_errors, position_cache, gtask,
                    engine_calls, engines_created, engines_quit, quit_errors, finished>>
     /\ UNCHANGED run_vars

Fault(g, k, kind) == [game |-> g, fen |-> ptask[<<g, k>>].move_data.fen, kind |-> kind]

\* engine.analyse answers within analysis_time + 2.0 seconds
EngineAnswers(g, k) ==
  /\ <<g, k>> \in DOMAIN ptask
  /\ ptask[<<g, k>>].engine = <<"live">>
  /\ FinishCall(g, k, "ok", AnalyzePositionOk(ptask[<<g, k>>].move_data))
  /\ UNCHANGED faults

\* asyncio.wait_for raises asyncio.TimeoutError
EngineTimesOut(g, k) ==
  /\ <<g, k>> \in DOMAIN ptask
  /\ ptask[<<g, k>>].engine = <<"live">>
  /\ Disturbances < MaxFaults
  /\ FinishCall(g, k, "timeout", AnalyzePositionTimeout(ptask[<<g, k>>].move_data))
  /\ faults' = faults \cup {Fault(g, k, "timeout")}

\* what can make engine.analyse raise on a handle: on a live one an error of
\* the protocol ("error") or the death of the process ("died"); on a dead one
\* every call raises ("dead_handle")
Failures(handle) == IF handle = <<"live">> THEN {"error", "died"} ELSE {"dead_handle"}

\* engine.analyse raises; _analyze_position catches the exception
EngineFails(g, k) ==
  /\ <<g, k>> \in DOMAIN ptask
  /\ ptask[<<g, k>>].st = "analysing"
  /\ \E cause \in Failures(ptask[<<g, k>>].engine) :
       /\ cause = "dead_handle" \/ Disturbances < MaxFaults
       /\ FinishCall(g, k, cause, AnalyzePositionError(ptask[<<g, k>>].move_data))
       /\ faults' = faults \cup {Fault(g, k, cause)}

(***************************************************************************)
(* Cancellation.  The task that runs analyze_username is cancelled while   *)
(* it waits in asyncio.gather: gather cancels the game tasks, whose gather *)
(* cancels the position tasks.  asyncio.CancelledError is not an           *)
(* Exception, so no "except Exception" clause catches it; the finally      *)
(* clauses run.                                                            *)
(***************************************************************************)
\* the position tasks that are suspended in acquire() or in the engine call,
\* as callbacks in the order of their keys
RECURSIVE Suspended(_)
Suspended(ts) ==
  IF ts = {} THEN <<>>
  ELSE LET t == CHOOSE x \in ts : \A y \in ts :
                   x[1] < y[1] \/ (x[1] = y[1] /\ x[2] <= y[2])
       IN <<PosEntry(t[1], t[2])>> \o Suspended(ts \ {t})

\* task.cancel() on the task of analyze_username: the futures the position
\* tasks wait for are cancelled, which makes these tasks runnable.  A
\* cancellation counts as one of the MaxFaults disturbances of a run.
Cancel ==
  /\ pc = "gather"
  /\ ~cancelled
  /\ Disturbances < MaxFaults
  /\ cancelled' = TRUE
  /\ deferred' \in BOOLEAN
  /\ sem_waiters' = <<>>
  /\ ready' = ready \o Suspended({t \in DOMAIN ptask :
                                     ptask[t].st \in {"waiting", "analysing"}})
  /\ UNCHANGED <<pc, exit_kind, result_cache, games, total_positions, batch_start,
                 analyzed_games, response, positions_analyzed, progress, sink_errors,
                 engine_pool, permits, engines_created, engines_quit, quit_errors,
                 position_cache, gtask, ptask, engine_calls, faults, finished,
                 task_state, task_result, job_updates, run, web_vars>>

\* a cancelled position task runs: CancelledError is raised where it was
\* suspended.  A task that was given the permit but has not taken an engine
\* gives the permit back (Semaphore.acquire); a task in the engine call gives
\* its handle back in the finally clause of _analyze_position_with_engine,
\* at once or, when wait_for first waits for the cancelled call to end, after
\* one more turn of the loop.
CancelledPosition(g, k) ==
  LET t == <<g, k>>
      gone == [ptask EXCEPT ![t].st = "cancelled", ![t].engine = <<>>,
                            ![t].outcome = "cancelled"]
  IN /\ cancelled
     /\ ready # <<>>
     /\ Head(ready) = PosEntry(g, k)
     /\ ~(pc = "cleanup" /\ engine_pool = <<>>)
     /\ \/ /\ ptask[t].st \in {"ready", "waiting"}
           /\ ptask' = gone
           /\ ready' = Tail(ready) \o WakeGame(ptask', g)
           /\ UNCHANGED <<engine_pool, permits>>
        \/ /\ ptask[t].st = "woken"
           /\ ptask' = gone
           /\ permits' = SemRelease(permits)
           /\ ready' = Tail(ready) \o WakeGame(ptask', g)
           /\ UNCHANGED engine_pool
        \/ /\ ptask[t].st = "analysing"
           /\ ~deferred \/ ptask[t].outcome = "stopping"
           /\ ptask' = gone
           /\ engine_pool' = PoolWith(engine_pool, ptask[t].engine[1])
           /\ permits' = SemRelease(permits)
           /\ ready' = Tail(ready) \o WakeGame(ptask', g)
        \/ /\ ptask[t].st = "analysing"
           /\ deferred
           /\ ptask[t].outcome = ""
           /\ ptask' = [ptask EXCEPT ![t].outcome = "stopping"]
           /\ ready' = Tail(ready) \o <<PosEntry(g, k)>>
           /\ UNCHANGED <<engine_pool, permits>>
     /\ UNCHANGED <<pc, positions_analyzed, progress, sink_errors, position_cache, gtask,
                    engine_calls, faults, finished, sem_waiters, engines_created,
                    engines_quit, quit_errors>>
     /\ UNCHANGED run_vars

\* a cancelled game task runs: CancelledError is raised at its start or at
\* its gather, and ends the task
CancelledGame(g) ==
  /\ cancelled
  /\ ready # <<>>
  /\ Head(ready) \in {GameEntry(g), FinishEntry(g)}
  /\ gtask' = [gtask EXCEPT ![g].st = "cancelled", ![g].game_cache = <<>>]
  /\ ready' = Tail(ready) \o WakeMain(gtask', Tail(ready))
  /\ UNCHANGED <<pc, positions_analyzed, progress, sink_errors, position_cache, ptask,
                 engine_calls, faults, finished>>
  /\ UNCHANGED run_vars
  /\ UNCHANGED pool_vars

(***************************************************************************)
(* The end of a batch and of the run.                                      *)
(***************************************************************************)
\* mutant of BatchResults: the results in the order the game tasks ended
BatchResultsAsCompleted ==
  LET ended == SelectSeq(finished, LAMBDA g : g \in Batch)
  IN [n \in 1..Len(ended) |-> gtask[ended[n]].result[1]]

\* what asyncio.gather returns for the batch: the results of the game tasks
\* in the order of the batch
BatchResults ==
  [n \in 1..Cardinality(Batch) |-> gtask[batch_start + n - 1].result[1]]

\* batch_results = await asyncio.gather(...): the first exception of a game
\* task, or the CancelledError of a cancelled run, is raised in
\* analyze_username; otherwise the results, in the order of the batch, are
\* appended to analyzed_games
GatherBatch ==
  /\ UNCHANGED <<finished, cancelled, deferred, task_state, task_result, job_updates, run, web_vars>>
  /\ ready # <<>>
  /\ Head(ready) = MainEntry
  /\ pc = "gather"
  /\ ready' = Tail(ready)
  /\ IF cancelled \/ \E g \in DOMAIN gtask : gtask[g].st = "raised"
     THEN /\ exit_kind' = IF cancelled THEN "cancelled" ELSE "raise"
          /\ pc' = "cleanup"
          /\ UNCHANGED <<analyzed_games, batch_start>>
     ELSE /\ analyzed_games' = analyzed_games \o BatchResults
          /\ batch_start' = batch_start + BatchSize
          /\ pc' = "loop"
          /\ UNCHANGED exit_kind
  /\ UNCHANGED <<result_cache, games, total_positions, response, positions_analyzed,
                 progress, sink_errors, position_cache, gtask, ptask, engine_calls, faults>>
  /\ UNCHANGED pool_vars

\* mutant of CacheSet: nothing is stored
CacheSetDropped(entry, value) == entry

\* await self.cache_service.set(cache_key, response.model_dump()): the entry
\* of the key after the call
CacheSet(entry, value) == <<value>>

\* after the last batch: the response is built, stored in the result cache
\* and returned; the last progress report is 100
Finalize ==
  /\ UNCHANGED <<finished, cancelled, deferred, task_state, task_result, job_updates, run, web_vars>>
  /\ pc = "loop"
  /\ batch_start > Len(games)
  /\ response' = <<AnalysisResponse(analyzed_games)>>
  /\ result_cache' = CacheSet(result_cache, AnalysisResponse(analyzed_games))
  /\ ReportProgress(100)
  /\ exit_kind' = "return"
  /\ pc' = "cleanup"
  /\ UNCHANGED <<games, total_positions, batch_start, analyzed_games, positions_analyzed,
                 position_cache, gtask, ptask, ready, engine_calls, faults>>
  /\ UNCHANGED pool_vars

\* mutant of QuitAll: the loop of cleanup ends at the first quit() that raises
QuitUntilError(pool) ==
  LET failing == {i \in DOMAIN pool : pool[i] = "dead"}
      first == IF failing = {} THEN Len(pool)
               ELSE CHOOSE i \in failing : \A j \in failing : i <= j
  IN [called |-> first, raised |-> IF failing = {} THEN 0 ELSE 1]

\* the loop of cleanup over engine_pool: quit() is called on every handle; on
\* a handle whose process has died it raises, which is caught and logged
QuitAll(pool) ==
  [called |-> Len(pool),
   raised |-> Cardinality({i \in DOMAIN pool : pool[i] = "dead"})]

\* mutant of Cleanup: the finally clause does not quit the engines
CleanupSkipped ==
  /\ pc = "cleanup"
  /\ pc' = "done"
  /\ UNCHANGED <<finished, engine_pool, engines_quit, quit_errors>>
  /\ UNCHANGED <<permits, sem_waiters, engines_created, positions_analyzed, progress, sink_errors,
                 position_cache, gtask, ptask, ready, engine_calls, faults>>
  /\ UNCHANGED run_vars

\* finally: await self.cleanup() quits every idle engine and empties the pool.
\* With an empty pool cleanup has nothing to wait for and ends in the step
\* that entered it; otherwise it waits for the engines to exit, which lets the
\* runnable callbacks go first, and the loop over engine_pool also reaches the
\* handles they append.
Cleanup ==
  /\ UNCHANGED <<finished, cancelled, deferred, task_state, task_result, job_updates, run, web_vars>>
  /\ pc = "cleanup"
  /\ engine_pool = <<>> \/ ready = <<>>
  /\ engines_quit' = engines_quit + QuitAll(engine_pool).called
  /\ quit_errors' = quit_errors + QuitAll(engine_pool).raised
  /\ engine_pool' = <<>>
  /\ pc' = "done"
  /\ UNCHANGED <<permits, sem_waiters, engines_created, positions_analyzed, progress, sink_errors,
                 position_cache, gtask, ptask, ready, engine_calls, faults>>
  /\ UNCHANGED run_vars

\* mutant of TerminalStatus: the except clause publishes 'completed' too
TerminalStatusCompleted(kind) == "completed"

\* the 'status' of the event analyze_games_task publishes on job_updates at
\* its end: 'completed' after the return of analyze_username, 'failed' in the
\* except clause
TerminalStatus(kind) == IF kind = "return" THEN "completed" ELSE "failed"

\* redis_client.publish('job_updates', ...) inside try/except: the event is
\* delivered, or publish raises and the exception is logged
Publish(status) ==
  \E delivered \in BOOLEAN :
    /\ delivered \/ Disturbances < MaxFaults
    /\ job_updates' = Append(job_updates, [status |-> status, delivered |-> delivered])

\* analyze_games_task: after analyze_username has returned, the task calls
\* service.cleanup() once more, publishes the completion event and returns
CleanupAgain ==
  /\ pc = "done"
  /\ exit_kind = "return"
  /\ engines_quit' = engines_quit + QuitAll(engine_pool).called
  /\ quit_errors' = quit_errors + QuitAll(engine_pool).raised
  /\ engine_pool' = <<>>
  /\ pc' = "closed"
  /\ task_state' = "SUCCESS"
  /\ task_result' = <<"SUCCESS">>
  /\ Publish(TerminalStatus(exit_kind))
  /\ UNCHANGED <<permits, sem_waiters, engines_created, positions_analyzed, progress, sink_errors,
                 position_cache, gtask, ptask, ready, engine_calls, faults, finished>>
  /\ UNCHANGED <<exit_kind, result_cache, games, total_positions, batch_start,
                 analyzed_games, response, cancelled, deferred, run, web_vars>>

\* analyze_games_task: analyze_username has raised; the except clause logs,
\* publishes the failure and returns {'status': 'FAILURE', 'error': ...}, so
\* that the job ends in the Celery state SUCCESS
TaskFails ==
  /\ pc = "done"
  /\ exit_kind = "raise"
  /\ pc' = "closed"
  /\ task_state' = "SUCCESS"
  /\ task_result' = <<"FAILURE">>
  /\ Publish(TerminalStatus(exit_kind))
  /\ UNCHANGED service_vars

\* task.ready(): the state is one of celery.states.READY_STATES
ReadyStates == {"SUCCESS", "FAILURE", "REVOKED"}

\* the status field of the AnalysisJobStatus that get_analysis_status returns
\* for a job in the given Celery state with the given returned 'status'
GetAnalysisStatus(state, result) ==
  IF state = "PENDING" THEN "pending"
  ELSE IF state = "PROGRESS" THEN "progress"
  ELSE IF state \in ReadyStates
       THEN (IF state = "SUCCESS"
             THEN (IF result # <<>> THEN result[1] ELSE "completed")
             ELSE "failed")
  ELSE "unknown"

Next ==
  \/ TaskStarts
  \/ TaskBegins
  \/ CheckResultCache
  \/ InitEnginePool
  \/ InitEnginePoolFails
  \/ FetchGames
  \/ StartBatch
  \/ \E g \in DOMAIN gtask : AnalyzeGameStart(g)
  \/ \E t \in DOMAIN ptask : GetEngine(t[1], t[2])
  \/ \E t \in DOMAIN ptask : EngineAnswers(t[1], t[2])
  \/ \E t \in DOMAIN ptask : EngineTimesOut(t[1], t[2])
  \/ \E t \in DOMAIN ptask : EngineFails(t[1], t[2])
  \/ \E g \in DOMAIN gtask : AnalyzeGameFinish(g)
  \/ Cancel
  \/ \E t \in DOMAIN ptask : CancelledPosition(t[1], t[2])
  \/ \E g \in DOMAIN gtask : CancelledGame(g)
  \/ GatherBatch
  \/ Finalize
  \/ Cleanup
  \/ CleanupAgain
  \/ TaskFails

Spec == Init /\ [][Next]_vars

(***************************************************************************)
(* A service that is used for more than one call of analyze_username.      *)
(***************************************************************************)
\* analyze_username is awaited again on the service whose call has returned,
\* for a username without a stored result: the locals of the call are new,
\* the attributes of the service are what cleanup left
AnalyzeUsernameAgain ==
  /\ pc = "done"
  /\ exit_kind = "return"
  /\ run < MaxRuns
  /\ run' = run + 1
  /\ pc' = "start"
  /\ exit_kind' = ""
  /\ result_cache' = <<>>
  /\ games' = <<>>
  /\ total_positions' = 0
  /\ positions_analyzed' = 0
  /\ batch_start' = 1
  /\ analyzed_games' = <<>>
  /\ response' = <<>>
  /\ progress' = <<>>
  /\ sink_errors' = {}
  /\ gtask' = <<>>
  /\ ptask' = <<>>
  /\ engine_calls' = <<>>
  /\ finished' = <<>>
  /\ UNCHANGED <<position_cache, ready, faults, cancelled, deferred, task_state,
                 task_result, job_updates, web_vars>>
  /\ UNCHANGED pool_vars

NextReuse == Next \/ AnalyzeUsernameAgain

SpecReuse == Init /\ [][NextReuse]_vars

(***************************************************************************)
(* Progress.  The event loop runs every callback that is ready, and every  *)
(* engine call ends: with an answer, an exception, or the timeout of       *)
(* asyncio.wait_for after analysis_time + 2.0 seconds.                     *)
(***************************************************************************)
\* one game of nine positions, all fingerprints distinct: one position more
\* than the semaphore admits
LongGame == ParsedGames(<< [j \in 1..(SemaphoreLimit + 1) |-> <<j, "d4">>] >>)

\* four games of one position each, the first and the last with the same
\* fingerprint: two batches
FourGames ==
  ParsedGames(<< <<<<1, "d4">>>>, <<<<2, "d4">>>>, <<<<3, "h3">>>>, <<<<1, "h3">>>> >>)

\* the replies of get_user_games for which progress is checked
LiveGames == {LongGame, FourGames}

FetchLive == Fetch(LiveGames)

NextLive ==
  \/ TaskStarts
  \/ TaskBegins
  \/ CheckResultCache
  \/ InitEnginePool
  \/ InitEnginePoolFails
  \/ FetchLive
  \/ StartBatch
  \/ \E g \in DOMAIN gtask : AnalyzeGameStart(g)
  \/ \E t \in DOMAIN ptask : GetEngine(t[1], t[2])
  \/ \E t \in DOMAIN ptask : EngineAnswers(t[1], t[2])
  \/ \E t \in DOMAIN ptask : EngineTimesOut(t[1], t[2])
  \/ \E t \in DOMAIN ptask : EngineFails(t[1], t[2])
  \/ \E g \in DOMAIN gtask : AnalyzeGameFinish(g)
  \/ Cancel
  \/ \E t \in DOMAIN ptask : CancelledPosition(t[1], t[2])
  \/ \E g \in DOMAIN gtask : CancelledGame(g)
  \/ GatherBatch
  \/ Finalize
  \/ Cleanup
  \/ CleanupAgain
  \/ TaskFails

\* an engine call in flight ends: engine.analyse answers or raises, or
\* asyncio.wait_for times out
EngineCallEnds ==
  \E t \in DOMAIN ptask :
    \/ EngineAnswers(t[1], t[2])
    \/ EngineTimesOut(t[1], t[2])
    \/ EngineFails(t[1], t[2])

\* fairness is assumed of the two steps progress depends on: a position task
\* that is ready to run get_engine_from_pool is run, and an engine call in
\* flight ends
SpecLive ==
  /\ Init
  /\ [][NextLive]_vars
  /\ WF_vars(\E t \in DOMAIN ptask : GetEngine(t[1], t[2]))
  /\ WF_vars(EngineCallEnds)

\* fairness is assumed of the event loop as a whole: while a callback is
\* ready it is run, and while none is ready and engine calls are in flight
\* one of them ends
SpecTerm == Init /\ [][NextLive]_vars /\ WF_vars(NextLive)

(***************************************************************************)
(* app/main.py: redis_listener, the thread of the web process that passes  *)
(* the messages of the Redis channel job_updates on to the Socket.IO       *)
(* subscribers of each job.                                                *)
(***************************************************************************)
\* the values of 'status' in the messages on the channel
ListenerStatuses == {"progress", "completed", "failed"}

\* the messages pubsub.listen() can yield: a JSON object with job_id and
\* status, or data that json.loads rejects
Messages ==
  [json : {TRUE}, job_id : 1..MaxJobs, status : ListenerStatuses]
    \cup {[json |-> FALSE, job_id |-> 0, status |-> ""]}

\* the duplicate test of the listener accepts every message
IsDuplicateNever(msg, done) == FALSE

\* status == "completed" and job_id in completed_jobs
IsDuplicate(msg, done) == msg.status = "completed" /\ msg.job_id \in done

\* one turn of the loop over pubsub.listen(): data that is no JSON raises
\* JSONDecodeError, which is logged; a 'completed' message of a job in
\* completed_jobs is skipped; every other message is handed to
\* send_job_updates, a 'completed' one after its job id is remembered.
\* subscribed tells whether websocket_connections has the job id, i.e.
\* whether send_job_updates emits anything
Listen(msg) ==
  /\ Len(received) < MaxMessages
  /\ received' = Append(received, msg)
  /\ IF ~msg.json \/ IsDuplicate(msg, completed_jobs)
       THEN UNCHANGED <<completed_jobs, forwarded>>
       ELSE /\ completed_jobs' = IF msg.status = "completed"
                                   THEN completed_jobs \cup {msg.job_id}
                                   ELSE completed_jobs
            /\ \E subscribed \in BOOLEAN :
                 forwarded' = Append(forwarded, [job_id |-> msg.job_id,
                                                 status |-> msg.status,
                                                 subscribed |-> subscribed])
  /\ UNCHANGED <<job_vars, cache_vars>>

NextListener == \E msg \in Messages : Listen(msg)

SpecListener == Init /\ [][NextListener]_vars

(***************************************************************************)
(* app/services/cache_service.py: CacheService over a Redis database and   *)
(* the in-memory TTLCache it falls back to.                                *)
(***************************************************************************)
CacheKeys == 1..MaxKeys

\* the dicts handed to set
CacheValues == {[username |-> "a"], [username |-> "b"]}

\* _normalize_key: the key under which Redis and memory_cache hold an entry
NormalizeKey(key) == <<"lotus_chess", key>>

\* json.dumps and json.loads
Dumps(value) == <<"json", value>>
Loads(data) == data[2]

\* key in self.memory_cache
InMemory(cache, ckey) == \E i \in 1..Len(cache) : cache[i].key = ckey

\* self.memory_cache[key]
MemoryGet(cache, ckey) ==
  (CHOOSE e \in {cache[i] : i \in 1..Len(cache)} : e.key = ckey).value

\* self.memory_cache[key] = value: the entry becomes the youngest one; a new
\* key in a full cache first evicts the oldest entry
MemorySet(cache, ckey, value) ==
  LET others == SelectSeq(cache, LAMBDA e : e.key # ckey)
      kept == IF Len(others) >= MemoryCacheSize THEN Tail(others) ELSE others
  IN Append(kept, [key |-> ckey, value |-> value])

\* an except clause that lets the error of the body through
ExceptReraises(out) == out

\* except Exception of get and of set: the error is logged and the call
\* returns None
ExceptReturnsNone(out) ==
  IF out.raised THEN [result |-> <<>>, raised |-> FALSE] ELSE out

\* the body of get: Redis is read when redis_available, and a Redis error
\* (fault) leaves the body; a value found there is decoded and returned;
\* otherwise memory_cache is looked up
GetBody(ckey, fault) ==
  IF redis_available = <<TRUE>> /\ fault
    THEN [result |-> <<>>, raised |-> TRUE]
    ELSE IF redis_available = <<TRUE>> /\ ckey \in DOMAIN redis_store
      THEN [result |-> <<Loads(redis_store[ckey])>>, raised |-> FALSE]
      ELSE IF InMemory(memory_cache, ckey)
        THEN [result |-> <<MemoryGet(memory_cache, ckey)>>, raised |-> FALSE]
        ELSE [result |-> <<>>, raised |-> FALSE]

\* CacheService.__init__: redis_available is the outcome of redis.ping(); a
\* Redis that answers may hold an entry written by an earlier process
CacheServiceInit ==
  /\ redis_available = <<>>
  /\ \E ok \in BOOLEAN :
       /\ redis_available' = <<ok>>
       /\ redis_store' \in
            IF ok THEN {<<>>, Put(<<>>, NormalizeKey(1), Dumps([username |-> "a"]))}
                  ELSE {<<>>}
  /\ UNCHANGED <<memory_cache, keys_set, cache_call>>
  /\ UNCHANGED <<job_vars, listener_vars>>

\* CacheService.get(key)
CacheServiceGet(key) ==
  /\ redis_available # <<>>
  /\ \E fault \in BOOLEAN :
       /\ fault => redis_available = <<TRUE>>
       /\ LET out == ExceptReturnsNone(GetBody(NormalizeKey(key), fault))
          IN cache_call' = [op |-> "get", key |-> key, value |-> <<>>,
                            result |-> out.result, fault |-> fault,
                            raised |-> out.raised]
  /\ UNCHANGED <<redis_available, redis_store, memory_cache, keys_set>>
  /\ UNCHANGED <<job_vars, listener_vars>>

\* CacheService.set(key, value): json.dumps, then redis.setex when
\* redis_available, then the write to memory_cache; a Redis error (fault)
\* leaves the body before either store is written
CacheServiceSet(key, value) ==
  /\ redis_available # <<>>
  /\ \E fault \in BOOLEAN :
       /\ fault => redis_available = <<TRUE>>
       /\ LET out == ExceptReturnsNone([result |-> <<>>, raised |-> fault])
          IN cache_call' = [op |-> "set", key |-> key, value |-> <<value>>,
                            result |-> <<>>, fault |-> fault,
                            raised |-> out.raised]
       /\ IF fault
            THEN UNCHANGED <<redis_store, memory_cache>>
            ELSE /\ redis_store' =
                      IF redis_available = <<TRUE>>
                        THEN Put(redis_store, NormalizeKey(key), Dumps(value))
                        ELSE redis_store
                 /\ memory_cache' = MemorySet(memory_cache, NormalizeKey(key), value)
  /\ keys_set' = keys_set \cup {key}
  /\ UNCHANGED redis_available
  /\ UNCHANGED <<job_vars, listener_vars>>

\* CACHE_TIMEOUT seconds after it was written, the oldest entry of
\* memory_cache expires
MemoryExpires ==
  /\ memory_cache # <<>>
  /\ memory_cache' = Tail(memory_cache)
  /\ cache_call' = NoCall
  /\ UNCHANGED <<redis_available, redis_store, keys_set>>
  /\ UNCHANGED <<job_vars, listener_vars>>

\* the time to live that setex gave a Redis key runs out
RedisExpires ==
  /\ \E ckey \in DOMAIN redis_store :
       redis_store' = [x \in (DOMAIN redis_store) \ {ckey} |-> redis_store[x]]
  /\ cache_call' = NoCall
  /\ UNCHANGED <<redis_available, memory_cache, keys_set>>
  /\ UNCHANGED <<job_vars, listener_vars>>

NextCache ==
  \/ CacheServiceInit
  \/ \E key \in CacheKeys : CacheServiceGet(key)
  \/ \E key \in CacheKeys, value \in CacheValues : CacheServiceSet(key, value)
  \/ MemoryExpires
  \/ RedisExpires

SpecCache == Init /\ [][NextCache]_vars

(***************************************************************************)
(* Properties.                                                             *)
(***************************************************************************)
\* the position tasks whose engine call is in flight
InFlight == {t \in DOMAIN ptask : ptask[t].st = "analysing"}

\* analyze_username has returned a response it built from the fetched games
Returned == pc \in {"done", "closed"} /\ exit_kind = "return" /\ games # <<>>

\* the positions of the i-th game of the response
Output(i) == response[1].games[i].moves

\* C1: at any moment at most one engine analysis is in flight per position
\* fingerprint, also when two games of one batch contain the fingerprint.
C1_OneInFlightPerFen ==
  \A t \in InFlight : \A u \in InFlight :
    ptask[t].move_data.fen = ptask[u].move_data.fen => t = u

\* C2: over a whole run the engine is invoked at most once for each distinct
\* fingerprint.
C2_OneCallPerFen ==
  \A fen \in DOMAIN engine_calls : engine_calls[fen] <= 1

\* C3: in every reachable state the number of engine analyses in flight
\* (handles checked out and not yet released) is at most the limit of 8.
C3_InFlightWithinLimit ==
  Cardinality(InFlight) <= SemaphoreLimit

\* C3 witness: 8 analyses are in flight and a ninth position task is blocked
\* in the semaphore.
C3_Saturated ==
  /\ Cardinality(InFlight) = SemaphoreLimit
  /\ sem_waiters # <<>>

\* C4: each engine handle is either idle in engine_pool or owned by exactly
\* one in-flight call: a task holds one handle exactly while its engine call
\* is in flight, and the idle handles, the handles held and the handles quit
\* add up to the handles created (a handle held twice, or idle and held at
\* once, would be counted twice).
C4_HandleOwnedOnce ==
  /\ \A t \in DOMAIN ptask :
       Len(ptask[t].engine) = IF ptask[t].st = "analysing" THEN 1 ELSE 0
  /\ Len(engine_pool) + Cardinality(InFlight) + engines_quit = engines_created

\* C4 witness: all engines were handed out, one came back and was handed to
\* the task that had been waiting for it, while other calls are in flight.
C4_HandleReused ==
  /\ Cardinality(DOMAIN ptask) > NumEngines
  /\ \E t \in DOMAIN ptask : ptask[t].st = "done"
  /\ Cardinality(InFlight) = SemaphoreLimit
  /\ sem_waiters = <<>>

\* C5: for every non-empty list of games, also when some or all games have no
\* moves, the run completes and returns one GameAnalysis per input game, with
\* its game_id and time_control, and no positions for a game without moves.
C5_OneAnalysisPerGame ==
  (pc = "done" /\ games # <<>>) =>
    /\ exit_kind = "return"
    /\ response # <<>>
    /\ Len(response[1].games) = Len(games)
    /\ \A i \in 1..Len(games) :
         /\ response[1].games[i].game_id = games[i].game_id
         /\ response[1].games[i].time_control = games[i].time_control
         /\ games[i].moves = <<>> => response[1].games[i].moves = <<>>

\* C6: the GameAnalysis entries come in the order of the input games, in
\* analyzed_games while the run goes on and in the response it returns,
\* whatever order the game tasks of a batch end in.
C6_OutputInInputOrder ==
  /\ Len(analyzed_games) <= Len(games)
  /\ \A i \in 1..Len(analyzed_games) : analyzed_games[i].game_id = games[i].game_id
  /\ Returned =>
       /\ Len(response[1].games) = Len(games)
       /\ \A i \in 1..Len(games) : response[1].games[i].game_id = games[i].game_id

\* C6 witness: the run has returned and, in some batch, a later game ended
\* before an earlier one.
C6_FinishedOutOfOrder ==
  /\ Returned
  /\ \E a \in DOMAIN finished : \E b \in DOMAIN finished :
       a < b /\ finished[a] > finished[b]

\* C7: every PositionAnalysis of the response has the evaluation of the
\* candidate that equals its own played move, or 0.0 when no candidate does,
\* also when it was filled from the cache or from another occurrence.
C7_EvalOfOwnPlayedMove ==
  Returned =>
    \A i \in 1..Len(response[1].games) : \A j \in 1..Len(Output(i)) :
      Output(i)[j].played_move_eval =
        PlayedMoveEval(Output(i)[j].best_moves, Output(i)[j].played_move)

\* C8: in the response any two positions with the same fingerprint, in the
\* same game or in different games, carry the same played_move_eval and the
\* same best_moves.
C8_SameFenSameAnalysis ==
  Returned =>
    \A i1 \in 1..Len(response[1].games) : \A j1 \in 1..Len(Output(i1)) :
    \A i2 \in 1..Len(response[1].games) : \A j2 \in 1..Len(Output(i2)) :
      Output(i1)[j1].fen = Output(i2)[j2].fen =>
        /\ Output(i1)[j1].played_move_eval = Output(i2)[j2].played_move_eval
        /\ Output(i1)[j1].best_moves = Output(i2)[j2].best_moves

\* an engine call of game i for fingerprint fen timed out or failed
Faulted(i, fen) == \E f \in faults : f.game = i /\ f.fen = fen

\* C9: no position task ends with an exception, and a returned GameAnalysis
\* covers its game: every input move number appears once, in order, with its
\* fingerprint and played move, and a position whose engine call timed out or
\* failed is present with empty best_moves and played_move_eval 0.0.
C9_EveryPositionPresent ==
  /\ \A t \in DOMAIN ptask : ptask[t].st # "raised"
  /\ Returned =>
       \A i \in 1..Len(games) :
         /\ Len(Output(i)) = Len(games[i].moves)
         /\ \A j \in 1..Len(games[i].moves) :
              /\ Output(i)[j].move_number = games[i].moves[j].move_number
              /\ Output(i)[j].fen = games[i].moves[j].fen
              /\ Output(i)[j].played_move = games[i].moves[j].played_move
              /\ Faulted(i, games[i].moves[j].fen) =>
                   /\ Output(i)[j].best_moves = <<>>
                   /\ Output(i)[j].played_move_eval = 0

\* C9 witness: a run has returned a game of two positions, one of them with
\* the sentinel after an engine error and the other with candidates.
C9_FailedPositionKept ==
  /\ Returned
  /\ \E f \in faults :
       /\ f.kind = "error"
       /\ Len(Output(f.game)) >= 2
       /\ \E j \in 1..Len(Output(f.game)) :
            Output(f.game)[j].fen = f.fen /\ Output(f.game)[j].best_moves = <<>>
       /\ \E j \in 1..Len(Output(f.game)) : Output(f.game)[j].best_moves # <<>>

\* fingerprint fen had no engine call that timed out or failed
Unfaulted(fen) == \A f \in faults : f.fen # fen

\* the analysis of an occurrence of p's fingerprint in the input, as the
\* engine gives it when it answers in time
UndisturbedResult(p) ==
  \E g \in 1..Len(games) : \E j \in 1..Len(games[g].moves) :
    /\ games[g].moves[j].fen = p.fen
    /\ p.best_moves = AnalyzePositionOk(games[g].moves[j]).best_moves
    /\ p.played_move_eval = AnalyzePositionOk(games[g].moves[j]).played_move_eval

\* C10: a position task whose engine call timed out ends with empty
\* best_moves and played_move_eval 0.0 and holds no handle; every handle is
\* idle in the pool or with a call in flight; when the run is over, and was
\* not cancelled, it has returned normally, the position that timed out
\* carries the sentinel and the positions of fingerprints without a timeout
\* carry the analysis they get when the engine answers.
C10_TimeoutContained ==
  /\ \A t \in DOMAIN ptask :
       ptask[t].outcome = "timeout" =>
         /\ ptask[t].st = "done"
         /\ ptask[t].engine = <<>>
         /\ ptask[t].result[1].best_moves = <<>>
         /\ ptask[t].result[1].played_move_eval = 0
  /\ pc \in {"gather", "loop"} =>
       Len(engine_pool) + Cardinality(InFlight) = engines_created
  /\ (pc = "done" /\ ~cancelled /\ \E f \in faults : f.kind = "timeout") =>
       /\ Returned
       /\ \A i \in 1..Len(response[1].games) : \A j \in 1..Len(Output(i)) :
            /\ Faulted(i, Output(i)[j].fen) =>
                 /\ Output(i)[j].best_moves = <<>>
                 /\ Output(i)[j].played_move_eval = 0
            /\ Unfaulted(Output(i)[j].fen) => UndisturbedResult(Output(i)[j])

\* C10 witness: a run has returned after a timeout; the position that timed
\* out has the sentinel and a position of another fingerprint has candidates.
C10_TimeoutThenReturn ==
  /\ Returned
  /\ \E f \in faults :
       /\ f.kind = "timeout"
       /\ \E j \in 1..Len(Output(f.game)) :
            Output(f.game)[j].fen = f.fen /\ Output(f.game)[j].best_moves = <<>>
       /\ \E i \in 1..Len(response[1].games) : \E j \in 1..Len(Output(i)) :
            Output(i)[j].fen # f.fen /\ Output(i)[j].best_moves # <<>>

\* analyze_username has returned or raised
Exited == pc \in {"done", "closed"} /\ exit_kind \in {"return", "raise"}

\* C11: once analyze_username has returned or raised, on whichever path, every
\* engine the run created has been quit, engine_pool is empty, no handle is
\* held, and no task is left that could start or hold an engine.
C11_AllEnginesQuitAtExit ==
  Exited =>
    /\ engine_pool = <<>>
    /\ engines_quit = engines_created
    /\ InFlight = {}
    /\ ready = <<>>
    /\ sem_waiters = <<>>
    /\ \A t \in DOMAIN ptask : Ended(ptask[t].st)

\* C11 witness: the run was aborted by the exception of a game task after the
\* pool had been filled, and all its engines have been quit.
C11_RaisedAfterPoolFilled ==
  /\ Exited
  /\ exit_kind = "raise"
  /\ games # <<>>
  /\ engines_created = NumEngines
  /\ engines_quit = NumEngines

\* C12: once cleanup has run, a handle that was still checked out is not put
\* back into engine_pool as a live idle engine: after cleanup the pool holds
\* no live handle.
C12_NoLiveHandleAfterCleanup ==
  pc \in {"done", "closed"} => \A i \in DOMAIN engine_pool : engine_pool[i] # "live"

\* C15: when a cancelled run has ended, no engine call is in flight, every
\* handle has been given back and quit, and no result has been returned or
\* stored in the result cache.
C15_CancelReleasesEverything ==
  (pc = "done" /\ exit_kind = "cancelled") =>
    /\ InFlight = {}
    /\ engine_pool = <<>>
    /\ engines_quit = engines_created
    /\ response = <<>>
    /\ result_cache = <<>>

\* C13: cleanup calls quit() on every handle of engine_pool, also after a
\* quit() that raised, and empties the pool; the second cleanup, which
\* analyze_games_task runs after analyze_username has returned, calls quit()
\* on no handle, changes nothing but its own position and leaves the pool
\* empty.
C13_CleanupIdempotent ==
  [][/\ (pc = "cleanup" /\ pc' = "done") =>
          /\ engines_quit' = engines_quit + Len(engine_pool)
          /\ engine_pool' = <<>>
     /\ (pc = "done" /\ pc' = "closed") =>
          /\ engine_pool = <<>>
          /\ engine_pool' = <<>>
          /\ engines_quit' = engines_quit
          /\ quit_errors' = quit_errors
          /\ exit_kind' = exit_kind
          /\ response' = response]_vars

\* C13 witness: the second cleanup has run after a first one in which a
\* quit() raised and all eight engines were still quit.
C13_SecondCleanupDone ==
  /\ pc = "closed"
  /\ quit_errors > 0
  /\ engines_created = NumEngines
  /\ engines_quit = NumEngines
  /\ engine_pool = <<>>

\* C14: a handle whose engine process has died is never handed out again by
\* get_engine_from_pool: no engine call is in flight on a dead handle.
C14_DeadHandleNotHandedOut ==
  \A t \in InFlight : ptask[t].engine # <<"dead">>

\* C16: the percents delivered to the progress callback never decrease, and
\* when analyze_username has ended, by return or by exception, the last
\* percent delivered is 100.
C16_ProgressMonotoneEndsAt100 ==
  /\ \A i \in DOMAIN progress : \A j \in DOMAIN progress :
       i <= j => progress[i] <= progress[j]
  /\ (Exited /\ progress # <<>>) => progress[Len(progress)] = 100

\* the number of positions of the games whose tasks have ended
PositionsCompleted(ended) == SumLen([i \in 1..Len(ended) |-> games[ended[i]].moves])

\* C17: every progress call made while the games are analysed reports
\* min(10 + floor(90 * analyzed / total), 99), with total the number of
\* positions of all games and analyzed the number of positions of the games
\* completed so far; the value lies in [10, 99], and 100 is reported only by
\* the call that ends the run.
C17_ProgressFormula ==
  [][progress' # progress =>
       /\ Len(progress') = Len(progress) + 1
       /\ pc = "gather" =>
            /\ total_positions = SumLen([g \in 1..Len(games) |-> games[g].moves])
            /\ positions_analyzed' = PositionsCompleted(finished')
            /\ progress'[Len(progress')] =
                 Min(10 + ((90 * positions_analyzed') \div total_positions), 99)
            /\ progress'[Len(progress')] >= 10
            /\ progress'[Len(progress')] <= 99
       /\ progress'[Len(progress')] = 100 => (pc \in {"fetch", "loop"} /\ pc' = "cleanup")
    ]_vars

\* C17 witness: a run has reported a percent strictly between 10 and 99 and
\* then the capped 99 for its last game.
C17_CapReached ==
  \E i \in DOMAIN progress : \E j \in DOMAIN progress :
    /\ i < j
    /\ progress[i] > 10
    /\ progress[i] < 99
    /\ progress[j] = 99

\* get_user_games has returned an empty list
ZeroGames == pc \in {"cleanup", "done", "closed"} /\ games = <<>> /\ progress # <<>>

\* C18: a run whose game retrieval yields no game returns a result with an
\* empty list of games, calls the engine for no position, and its progress
\* callback receives, after the 5 of the start, one call at 100 and no other.
C18_ZeroGamesRun ==
  ZeroGames =>
    /\ exit_kind = "return"
    /\ response = <<AnalysisResponse(<<>>)>>
    /\ \A fen \in DOMAIN engine_calls : engine_calls[fen] = 0
    /\ InFlight = {}
    /\ Cardinality({i \in DOMAIN progress : progress[i] = 100}) = 1
    /\ progress[Len(progress)] = 100
    /\ \A i \in DOMAIN progress : progress[i] \in {5, 100}

\* C18 witness: a run without games is over, its engines were started and
\* quit, and the callback got 5 and 100.
C18_ZeroGamesOver ==
  /\ ZeroGames
  /\ pc = "closed"
  /\ progress = <<5, 100>>
  /\ engines_quit = NumEngines

\* C19: a progress callback that raises does not make the run raise: the run
\* ends as it does with a callback that never raises, every progress call is
\* still made (5, 10, one per game and 100, or 5 and 100 without games), and
\* the result covers every game, with the engine's analysis for each position
\* whose engine call did not time out or fail.
C19_SinkErrorContained ==
  (/\ pc \in {"done", "closed"}
   /\ sink_errors # {}
   /\ ~cancelled
   /\ ~(games # <<>> /\ total_positions = 0)) =>
    /\ exit_kind = "return"
    /\ Len(progress) = IF games = <<>> THEN 2 ELSE 3 + Len(games)
    /\ progress[Len(progress)] = 100
    /\ games # <<>> =>
         /\ Len(response[1].games) = Len(games)
         /\ \A i \in 1..Len(games) :
              /\ Len(Output(i)) = Len(games[i].moves)
              /\ \A j \in 1..Len(Output(i)) :
                   Unfaulted(Output(i)[j].fen) => UndisturbedResult(Output(i)[j])

\* C19 witness: the callback raised in a call that was not the last one, and
\* the run has returned a result with candidate moves.
C19_ReturnedAfterSinkError ==
  /\ Returned
  /\ \E i \in sink_errors : i < Len(progress)
  /\ \E i \in 1..Len(response[1].games) : \E j \in 1..Len(Output(i)) :
       Output(i)[j].best_moves # <<>>

\* the number of the batch of the g-th game, counted from 0
BatchOf(g) == (g - 1) \div MaxBatch

\* every game of an earlier batch than that of game g has completed
EarlierBatchesCompleted(g) ==
  \A h \in 1..Len(games) : BatchOf(h) < BatchOf(g) => h \in Range(finished)

\* C20: the games are analysed in consecutive batches of at most 3: at most 3
\* game tasks exist at any time, they belong to one batch, and a game task
\* exists (and a position task of the game exists or holds an engine) only
\* when every game of every earlier batch has completed.
C20_BatchBarrier ==
  /\ Cardinality(DOMAIN gtask) <= MaxBatch
  /\ Cardinality(Batch) <= MaxBatch
  /\ \A g \in DOMAIN gtask : \A h \in DOMAIN gtask : BatchOf(g) = BatchOf(h)
  /\ \A g \in DOMAIN gtask : EarlierBatchesCompleted(g)
  /\ \A t \in DOMAIN ptask : t[1] \in DOMAIN gtask /\ EarlierBatchesCompleted(t[1])

\* C20 witness: a position of the fourth game has an engine while the three
\* games of the first batch have completed.
C20_SecondBatchRunning ==
  /\ Len(games) > MaxBatch
  /\ \E t \in InFlight : BatchOf(t[1]) = 1
  /\ \A g \in 1..MaxBatch : g \in Range(finished)

\* C21: position_cache is write-once per fingerprint: an entry, once written,
\* is neither removed nor replaced by another value in any later step, also
\* when two games of one batch contain the fingerprint.
C21_PositionCacheWriteOnce ==
  [][\A fen \in DOMAIN position_cache :
       /\ fen \in DOMAIN position_cache'
       /\ position_cache'[fen] = position_cache[fen]]_vars

\* _analyze_game starts for game g in this step
GameStarts(g) ==
  /\ ready # <<>>
  /\ Head(ready) = GameEntry(g)
  /\ ~cancelled
  /\ gtask'[g].st # "ready"

\* after the step in which _analyze_game started for game g, the position of
\* move number n carries the analysis stored in cached
CarriesCached(g, n, cached) ==
  IF gtask'[g].st = "gathering"
  THEN /\ n \in DOMAIN gtask'[g].game_cache
       /\ gtask'[g].game_cache[n].played_move_eval = cached.played_move_eval
       /\ gtask'[g].game_cache[n].best_moves = cached.best_moves
  ELSE /\ gtask'[g].st = "done"
       /\ \E i \in DOMAIN gtask'[g].result[1].moves :
            /\ gtask'[g].result[1].moves[i].move_number = n
            /\ gtask'[g].result[1].moves[i].played_move_eval = cached.played_move_eval
            /\ gtask'[g].result[1].moves[i].best_moves = cached.best_moves

\* C22: when _analyze_game starts for a game, every occurrence in the game of
\* a fingerprint that position_cache holds receives the cached
\* played_move_eval and best_moves, and no position task (hence no engine
\* handle) is created for the fingerprint.
C22_CachedFenReused ==
  [][\A g \in DOMAIN gtask :
       GameStarts(g) =>
         \A j \in DOMAIN games[g].moves :
           games[g].moves[j].fen \in DOMAIN position_cache =>
             /\ CarriesCached(g, games[g].moves[j].move_number,
                              position_cache[games[g].moves[j].fen])
             /\ \A t \in DOMAIN ptask' :
                  t[1] = g => ptask'[t].move_data.fen # games[g].moves[j].fen
             /\ engine_calls' = engine_calls]_vars

\* C22 witness: the fourth game, of the second batch, repeats the position of
\* the first game; the run has returned, the engine was called once for the
\* fingerprint and the fourth game carries its candidate moves.
C22_SecondBatchHit ==
  /\ Returned
  /\ Len(games) = 4
  /\ games[1].moves # <<>>
  /\ games[4].moves # <<>>
  /\ games[4].moves[1].fen = games[1].moves[1].fen
  /\ engine_calls[games[1].moves[1].fen] = 1
  /\ Output(4)[1].best_moves # <<>>

\* the fingerprints of the i-th game
FensOf(i) == {games[i].moves[j].fen : j \in DOMAIN games[i].moves}

\* C23: when a run of a single game, started with an empty position_cache,
\* has returned, the engine was called once for each distinct fingerprint of
\* the game and for nothing else, and the occurrences of a fingerprint carry
\* one evaluation and one list of candidates: those of the call for the first
\* occurrence when that call was not disturbed.
C23_OneCallPerDistinctFen ==
  (Returned /\ Len(games) = 1) =>
    /\ DOMAIN engine_calls = FensOf(1)
    /\ \A fen \in FensOf(1) : engine_calls[fen] = 1
    /\ \A j \in DOMAIN Output(1) : \A k \in DOMAIN Output(1) :
         Output(1)[j].fen = Output(1)[k].fen =>
           /\ Output(1)[j].played_move_eval = Output(1)[k].played_move_eval
           /\ Output(1)[j].best_moves = Output(1)[k].best_moves
           /\ (j <= k /\ Unfaulted(Output(1)[j].fen) /\
               \A i \in 1..(j - 1) : Output(1)[i].fen # Output(1)[j].fen) =>
                /\ Output(1)[k].played_move_eval =
                     AnalyzePositionOk(games[1].moves[j]).played_move_eval
                /\ Output(1)[k].best_moves =
                     AnalyzePositionOk(games[1].moves[j]).best_moves

\* C23 witness: the game of four positions, two of them sharing a
\* fingerprint, has been analysed with three engine calls, and the two
\* positions carry the same candidates.
C23_ThreeCallsForFour ==
  /\ Returned
  /\ games = SharedFenGame
  /\ Cardinality(DOMAIN engine_calls) = 3
  /\ Len(Output(1)) = 4
  /\ Output(1)[1].best_moves # <<>>
  /\ Output(1)[3].best_moves = Output(1)[1].best_moves

\* C24: a run raises to its caller only when init_engine_pool could not
\* create an engine: then no game was fetched, there is no response, nothing
\* is in the result cache and the engines created before the failure have
\* been quit; no error of a position or of a game makes the run raise.
C24_OnlyPoolInitFatal ==
  (pc \in {"done", "closed"} /\ exit_kind = "raise") =>
    /\ engines_created < NumEngines
    /\ games = <<>>
    /\ progress = <<>>
    /\ response = <<>>
    /\ result_cache = <<>>
    /\ engine_pool = <<>>
    /\ engines_quit = engines_created

\* the run is between the end of init_engine_pool and the start of cleanup
PoolInUse(at) == at \in {"fetch", "loop", "gather"}

\* C25: between pool initialisation and cleanup no handle is lost and none is
\* added beyond the cap: the handles idle in engine_pool and the handles
\* checked out are together the handles created, at most 8, after every step;
\* a handle that is released is in the pool afterwards; and an engine is
\* created by get_engine_from_pool only when engine_pool is empty.
C25_HandlesWithinCap ==
  [][/\ PoolInUse(pc') =>
          /\ Len(engine_pool') + Cardinality({t \in DOMAIN ptask' : ptask'[t].engine # <<>>})
               = engines_created'
          /\ engines_created' <= SemaphoreLimit
     /\ (PoolInUse(pc) /\ PoolInUse(pc')) =>
          /\ \A t \in DOMAIN ptask :
               (t \in DOMAIN ptask' /\ ptask[t].engine # <<>> /\ ptask'[t].engine = <<>>) =>
                 Len(engine_pool') = Len(engine_pool) + 1
          /\ engines_created' > engines_created => engine_pool = <<>>
          /\ engines_quit' = engines_quit]_vars

\* C25 witness: all 8 handles are checked out, after one of them has been
\* released and handed out again, and the pool is empty.
C25_AllHandlesOut ==
  /\ pc = "gather"
  /\ engine_pool = <<>>
  /\ engines_created = NumEngines
  /\ Cardinality({t \in DOMAIN ptask : ptask[t].engine # <<>>}) = NumEngines
  /\ \E t \in DOMAIN ptask : ptask[t].st = "done"

\* C26: an engine call during which the engine process died ends like one
\* that timed out: its position task ends normally, holds no handle, and its
\* result has empty best_moves and played_move_eval 0.0; no position task
\* ends with an exception; and the run, unless it is cancelled, returns a
\* result with every game, in which the position carries that sentinel.
C26_CrashDegradesLikeTimeout ==
  /\ \A t \in DOMAIN ptask :
       /\ ptask[t].st # "raised"
       /\ ptask[t].outcome = "died" =>
            /\ ptask[t].st = "done"
            /\ ptask[t].engine = <<>>
            /\ ptask[t].result = <<AnalyzePositionTimeout(ptask[t].move_data)>>
  /\ (pc \in {"done", "closed"} /\ ~cancelled /\ \E f \in faults : f.kind = "died") =>
       /\ Returned
       /\ Len(response[1].games) = Len(games)
       /\ \A f \in faults :
            f.kind = "died" =>
              \E j \in DOMAIN Output(f.game) :
                /\ Output(f.game)[j].fen = f.fen
                /\ Output(f.game)[j].best_moves = <<>>
                /\ Output(f.game)[j].played_move_eval = 0

\* C26 witness: the engine died in a call of a run that has returned; another
\* position of the result has candidate moves.
C26_CrashThenReturn ==
  /\ Returned
  /\ \E f \in faults :
       /\ f.kind = "died"
       /\ \E i \in 1..Len(response[1].games) : \E j \in 1..Len(Output(i)) :
            Output(i)[j].fen # f.fen /\ Output(i)[j].best_moves # <<>>

\* C27: in every state of a job the status that get_analysis_status reports is
\* "pending", "progress", "completed" or "failed"; it is "failed" for a job
\* whose analysis raised and "completed" for a job whose analysis returned.
C27_JobStatusInVocabulary ==
  /\ GetAnalysisStatus(task_state, task_result)
       \in {"pending", "progress", "completed", "failed"}
  /\ (pc = "closed" /\ exit_kind = "raise") =>
       GetAnalysisStatus(task_state, task_result) = "failed"
  /\ (pc = "closed" /\ exit_kind = "return") =>
       GetAnalysisStatus(task_state, task_result) = "completed"

\* C28: when a call of analyze_username starts, position_cache holds no entry:
\* what an earlier call on the same service wrote was discarded at its end.
C28_PositionCacheEmptyAtStart ==
  pc = "start" => position_cache = <<>>

\* the position task of the game of nine positions that finds the semaphore
\* exhausted: tasks acquire in the order gather started them
NinthTask == <<1, SemaphoreLimit + 1>>

\* position task t is blocked in engine_semaphore.acquire()
Blocked(t) == t \in DOMAIN ptask /\ ptask[t].st = "waiting"

\* position task t has its engine handle
HasHandle(t) == t \in DOMAIN ptask /\ ptask[t].engine # <<>>

\* C29: a position task that is blocked in get_engine_from_pool because 8
\* analyses are in flight eventually has an engine handle, unless the run is
\* cancelled meanwhile.
C29_WaiterGetsHandle ==
  Blocked(NinthTask) ~> (HasHandle(NinthTask) \/ cancelled)

\* C29 witness: a release has woken the task that was blocked; the handle
\* released is idle in the pool and no task is blocked.
C29_WaiterWoken ==
  /\ NinthTask \in DOMAIN ptask
  /\ ptask[NinthTask].st = "woken"
  /\ engine_pool # <<>>
  /\ sem_waiters = <<>>
  /\ ~cancelled

\* the evaluation _normalize_evaluation gave candidate i of a stored result
StoredEval(t, i) == ptask[t].result[1].best_moves[i].eval

\* the position tasks the engine has answered
Answered == {t \in DOMAIN ptask : ptask[t].result # <<>> /\ ptask[t].result[1].best_moves # <<>>}

\* C30: every candidate whose line ends in mate is evaluated at the sentinel
\* of magnitude 100.0 whatever the distance to mate: +100.0 when the side to
\* move mates (mate() > 0) and -100.0 otherwise.
C30_MateSentinel ==
  \A t \in Answered :
    \A i \in 1..Len(ptask[t].result[1].best_moves) :
      LET score == EngineAnalyse(ptask[t].move_data.fen)[i].score
      IN score.is_mate =>
           StoredEval(t, i) = (IF score.n > 0 THEN MateScore ELSE 0 - MateScore)

\* C30 witness: in one run the engine has answered with mates in one and in
\* three for the side to move, with a mate at distance 0 and with a mate in
\* two against it
C30_MatesAtSeveralDistances ==
  \E t1, t2, t3, t4 \in Answered :
    /\ SecondLineScore(ptask[t1].move_data.fen) = Mate(1)
    /\ SecondLineScore(ptask[t2].move_data.fen) = Mate(3)
    /\ SecondLineScore(ptask[t3].move_data.fen) = Mate(0)
    /\ SecondLineScore(ptask[t4].move_data.fen) = Mate(0 - 2)
    /\ StoredEval(t1, 2) = MateScore
    /\ StoredEval(t2, 2) = MateScore
    /\ StoredEval(t3, 2) = 0 - MateScore
    /\ StoredEval(t4, 2) = 0 - MateScore

\* the positions out are in strictly ascending move_number order and each has
\* the fen, move_number and played_move of the position of moves with that
\* move number
CarriesInput(out, moves) ==
  /\ \A a \in DOMAIN out : \A b \in DOMAIN out :
       a < b => out[a].move_number < out[b].move_number
  /\ \A a \in DOMAIN out : \E j \in DOMAIN moves :
       /\ moves[j].move_number = out[a].move_number
       /\ moves[j].fen = out[a].fen
       /\ moves[j].played_move = out[a].played_move

\* C31: in each GameAnalysis, as a game task returns it and as the response
\* holds it, the positions are in strictly ascending move_number order and
\* each carries the fen, move_number and played_move of the input position
\* with that move number, also when it was filled from the cache or from
\* another occurrence's analysis.
C31_PositionsCarryInput ==
  /\ \A g \in DOMAIN gtask :
       gtask[g].result # <<>> => CarriesInput(gtask[g].result[1].moves, games[g].moves)
  /\ \A i \in 1..Len(analyzed_games) :
       CarriesInput(analyzed_games[i].moves, games[i].moves)
  /\ Returned =>
       \A i \in 1..Len(response[1].games) : CarriesInput(Output(i), games[i].moves)

\* C31 witness: a run has returned the game of four positions whose third
\* position has the fingerprint of the first and another played move; the
\* third position has the candidates of the first one's analysis.
C31_SecondOccurrenceReturned ==
  /\ Returned
  /\ games = SharedFenGame
  /\ Len(Output(1)) = 4
  /\ Output(1)[3].fen = Output(1)[1].fen
  /\ Output(1)[3].played_move = "h3"
  /\ Output(1)[1].played_move = "d4"
  /\ Output(1)[3].best_moves # <<>>

\* the position tasks that release() has woken and given the permit, and
\* that have not run since
Woken == {t \in DOMAIN ptask : ptask[t].st = "woken"}

\* position task t is the next callback to run and will leave
\* get_engine_from_pool's acquire() with a permit
TakesPermit(t) ==
  /\ ready # <<>>
  /\ Head(ready) = PosEntry(t[1], t[2])
  /\ ~cancelled
  /\ \/ ptask[t].st = "woken"
     \/ ptask[t].st = "ready" /\ ~SemLocked(permits, sem_waiters)

\* C32 as stated: between pool initialisation and cleanup the number of free
\* permits of engine_semaphore equals the number of idle handles.
C32_PermitsEqualIdleHandles ==
  PoolInUse(pc) => permits = Len(engine_pool)

\* C32 amended: between pool initialisation and cleanup the free permits
\* together with the permits that release() has handed to woken tasks equal
\* the idle handles, and a task that obtains a permit finds an idle handle.
C32_PermitsAndHandoversEqualIdleHandles ==
  PoolInUse(pc) =>
    /\ permits + Cardinality(Woken) = Len(engine_pool)
    /\ \A t \in DOMAIN ptask : TakesPermit(t) => engine_pool # <<>>

\* C32 witness: eight calls were in flight and a ninth task was blocked; one
\* call has ended, its handle is idle and its permit belongs to the woken
\* task, which has not run yet.
C32_PermitHandedOver ==
  /\ pc = "gather"
  /\ ~cancelled
  /\ Cardinality(Woken) = 1
  /\ permits = 0
  /\ Len(engine_pool) = 1
  /\ Cardinality(InFlight) = SemaphoreLimit - 1

\* the position tasks that hold a permit of engine_semaphore: those in the
\* engine call and those release() has woken
PermitHolders == InFlight \cup Woken

\* C33: every permit taken is given back exactly once.  The free permits and
\* the permits held by position tasks are SemaphoreLimit at all times,
\* whether a task ends with a result, after a timeout, after an error of the
\* analysis or by cancellation; no position task ends because an engine could
\* not be created after the permit was taken; and when all position tasks
\* have ended the semaphore is back at 8 free permits.
C33_PermitsGivenBack ==
  /\ permits + Cardinality(PermitHolders) = SemaphoreLimit
  /\ \A t \in DOMAIN ptask : ptask[t].st # "raised"
  /\ (\A t \in DOMAIN ptask : Ended(ptask[t].st)) => permits = SemaphoreLimit

\* C33 witness: nine position tasks have ended, one of them by cancellation
\* in its engine call and one with a result, and all 8 permits are free.
C33_AllBackAfterCancellation ==
  /\ cancelled
  /\ Cardinality(DOMAIN ptask) = SemaphoreLimit + 1
  /\ \A t \in DOMAIN ptask : Ended(ptask[t].st)
  /\ \E t \in DOMAIN ptask : ptask[t].outcome = "cancelled" /\ ptask[t].result = <<>>
  /\ \E t \in DOMAIN ptask : ptask[t].outcome = "ok"
  /\ permits = SemaphoreLimit

\* what position_cache holds for a fingerprint whose analysis was degraded
Sentinel == [played_move_eval |-> 0, best_moves |-> <<>>]

\* game i has returned from _analyze_game
GameOver(i) == \E n \in DOMAIN finished : finished[n] = i

\* C34: a degraded result is cached like a full one.  Once the game in which
\* a fingerprint's engine call timed out or failed has been processed,
\* position_cache holds the sentinel for the fingerprint, and every game of a
\* later batch that contains the fingerprint is returned with the sentinel at
\* its positions.
C34_DegradedResultStaysCached ==
  \A f \in faults :
    GameOver(f.game) =>
      /\ f.fen \in DOMAIN position_cache
      /\ position_cache[f.fen] = Sentinel
      /\ \A g \in DOMAIN gtask :
           (BatchOf(g) > BatchOf(f.game) /\ gtask[g].result # <<>>) =>
             \A j \in DOMAIN gtask[g].result[1].moves :
               gtask[g].result[1].moves[j].fen = f.fen =>
                 /\ gtask[g].result[1].moves[j].best_moves = <<>>
                 /\ gtask[g].result[1].moves[j].played_move_eval = 0

RunOver ==
  /\ pc \in {"done", "closed"}
  /\ exit_kind \in {"return", "raise", "cancelled"}
  /\ sem_waiters = <<>>
  /\ \A t \in DOMAIN ptask : ptask[t].st # "waiting"
  /\ \A g \in DOMAIN gtask : gtask[g].st # "gathering"

\* C36: every run terminates: a call of analyze_username eventually returns
\* or raises, with no task left blocked on the engine semaphore or on the
\* gather of a batch.
C36_RunTerminates ==
  (pc = "start") ~> RunOver

\* C36 witness: the run on the game of nine positions, in which the ninth
\* position task had to wait for a permit, has returned all nine positions.
C36_LongGameReturned ==
  /\ RunOver
  /\ exit_kind = "return"
  /\ games = LongGame
  /\ Len(response[1].games[1].moves) = SemaphoreLimit + 1
  /\ engines_created = NumEngines

\* the terminal events that reached the job_updates channel
Delivered == SelectSeq(job_updates, LAMBDA e : e.delivered)

\* analyze_games_task has returned after analyze_username returned or raised
JobOver == pc = "closed"

\* C37 as stated: for each job exactly one terminal event is published on
\* the job_updates channel.
C37_ExactlyOneTerminalEvent ==
  JobOver => Len(Delivered) = 1

\* C37 amended: analyze_games_task calls publish for a terminal event exactly
\* once, at its end: 'completed' if analyze_username returned, 'failed' if it
\* raised; the progress callback is not called afterwards; the event reaches
\* the channel unless publish raises, and the task returns the same value
\* whether it does or not.
C37_OneTerminalPublish ==
  [][/\ pc' # "closed" => job_updates' = <<>>
     /\ pc' = "closed" =>
          /\ Len(job_updates') = 1
          /\ job_updates'[1].status =
               (IF exit_kind' = "return" THEN "completed" ELSE "failed")
          /\ task_result' = <<IF exit_kind' = "return" THEN "SUCCESS" ELSE "FAILURE">>
          /\ task_state' = "SUCCESS"
     /\ job_updates' # <<>> => progress' = progress
    ]_vars

\* C37 witness: analyze_username has returned the analysis of a game after
\* progress calls, the publish of 'completed' has raised, and the task has
\* returned {'status': 'SUCCESS', ...}.
C37_CompletedNotDelivered ==
  /\ JobOver
  /\ exit_kind = "return"
  /\ games # <<>>
  /\ Len(progress) >= 3
  /\ job_updates = <<[status |-> "completed", delivered |-> FALSE]>>
  /\ task_result = <<"SUCCESS">>

\* the statuses of the messages of seq, in order, that are not 'completed'
OtherStatuses(seq) ==
  SelectSeq(seq, LAMBDA m : m.status \in {"progress", "failed"})

\* the messages of seq with job_id and status only
Plain(seq) == [i \in 1..Len(seq) |-> [job_id |-> seq[i].job_id, status |-> seq[i].status]]

\* C38: redis_listener hands at most one 'completed' event of a job id to
\* send_job_updates: a job with a 'completed' message received has exactly
\* one forwarded, however many arrived, while the 'progress' and 'failed'
\* messages received are all forwarded, in the order of their arrival.
C38_CompletedForwardedOnce ==
  /\ \A i, j \in 1..Len(forwarded) :
       (/\ i < j
        /\ forwarded[i].status = "completed"
        /\ forwarded[j].status = "completed")
         => forwarded[i].job_id # forwarded[j].job_id
  /\ \A i \in 1..Len(received) :
       received[i].status = "completed"
         => \E j \in 1..Len(forwarded) :
              /\ forwarded[j].status = "completed"
              /\ forwarded[j].job_id = received[i].job_id
  /\ Plain(OtherStatuses(forwarded)) = Plain(OtherStatuses(received))

\* a second 'completed' message of job 1 was dropped, and the 'failed'
\* message of the same job that followed it was forwarded
C38_SecondCompletedDropped ==
  /\ Len(received) = 3
  /\ received[1].status = "completed" /\ received[1].job_id = 1
  /\ received[2] = received[1]
  /\ received[3].status = "failed" /\ received[3].job_id = 1
  /\ Len(forwarded) = 2
  /\ forwarded[2].status = "failed"

\* C39: with Redis unavailable, get(k) right after set(k, v) returns v and
\* get of a key never set returns None; get and set never raise to their
\* caller; when the backend raises inside a call, get returns None and set
\* leaves both stores as they were.
C39_CacheRoundTripAndContainment ==
  [][/\ (/\ redis_available = <<FALSE>>
         /\ cache_call.op = "set"
         /\ cache_call'.op = "get"
         /\ cache_call'.key = cache_call.key)
          => cache_call'.result = cache_call.value
     /\ (/\ redis_available' = <<FALSE>>
         /\ cache_call'.op = "get"
         /\ cache_call'.key \notin keys_set')
          => cache_call'.result = <<>>
     /\ ~cache_call'.raised
     /\ (cache_call'.fault /\ cache_call'.op = "get")
          => cache_call'.result = <<>>
     /\ (cache_call'.fault /\ cache_call'.op = "set")
          => /\ redis_store' = redis_store
             /\ memory_cache' = memory_cache]_vars

\* without Redis, a get has returned the value of an earlier set while the
\* in-memory cache was full
C39_ReadBackFromMemory ==
  /\ redis_available = <<FALSE>>
  /\ cache_call.op = "get"
  /\ cache_call.result = <<[username |-> "b"]>>
  /\ Len(memory_cache) = MemoryCacheSize
  /\ Cardinality(keys_set) = MaxKeys

====
